---- MODULE Spec2Model ----
(***************************************************************************)
(* fastapi-nacos: the ConfigManager (core/config.py) behind the            *)
(* NacosClientManager facade (core/__init__.py), against a Nacos config    *)
(* session (the SDK's NacosConfigService).                                 *)
(*                                                                         *)
(* Every ConfigManager coroutine is one `await` on the session: the code   *)
(* before the await runs when the coroutine is called (.._call), the       *)
(* session answers at some later point (.._backend), and the code after    *)
(* the await runs when the event loop resumes the coroutine (.._return).   *)
(* Other coroutines, remote changes and the session's notifications may    *)
(* run between those three steps.                                          *)
(***************************************************************************)
EXTENDS Naturals, Sequences, FiniteSets, TLC

\* ------------------------------------------------------------------ bounds

NumTasks == 2           \* coroutines that may be in flight together (SpecConc)
NumCallbacks == 2       \* distinct callback functions handed to add_listener
NumManagers == 2        \* NacosClientManager objects constructed in one process
MaxInstances == 2       \* instances of the service at the backend
MaxCursor == 3          \* round-robin selections per key
MaxSessions == 2        \* sessions the backend hands out
MaxHooks == 1           \* register_service calls that install hooks on the application

Tasks == 1..NumTasks
SeqTasks == {1}         \* Spec: a caller that awaits each call before the next
Callbacks == 1..NumCallbacks

DataIds == {"d1"}
Groups == {"g1"}
Namespaces == {"ns1", "ns2"}
Contents == {"", "v1"}

\* Python's None, True and False, as values distinct from every content.
None == "<None>"
True == "<True>"
False == "<False>"

\* ------------------------------------------------------- dicts and keys

Put(dict, k, v) == [x \in (DOMAIN dict) \cup {k} |-> IF x = k THEN v ELSE dict[x]]
Del(dict, k) == [x \in (DOMAIN dict) \ {k} |-> dict[x]]
EmptyDict == [x \in {} |-> None]

\* f"{namespace}:{group}:{data_id}"
CacheKey(namespace, group, data_id) == namespace \o ":" \o group \o ":" \o data_id

\* ConfigParam(data_id=..., group=...): what the session is asked for. The
\* namespace of the request is not part of it (the session has its own).
ConfigParam(data_id, group) == <<data_id, group>>

BackendKeys == {ConfigParam(d, g) : d \in DataIds, g \in Groups}

\* ConfigListener(data_id, group, namespace, callback)
ConfigListener(data_id, group, namespace, callback) ==
    [data_id |-> data_id, group |-> group, namespace |-> namespace, callback |-> callback]

\* ------------------------------------------------------------------ state

VARIABLES
    store,              \* the backend's config entries: ConfigParam -> content or None
    backend_listeners,  \* the session's listeners: ConfigParam -> set of callbacks
    pending,            \* ConfigParam -> a change the session has not pushed yet
    config_cache,       \* ConfigManager.config_cache
    config_listeners,   \* ConfigManager.config_listeners
    pc,                 \* task -> "idle" | "awaiting" | "resumed"
    call,               \* task -> the call in flight (NoCall when idle)
    bres,               \* task -> the session's answer to it (NoRes until it came)
    ev,                 \* what the last step made observable: a call's outcome or
                        \* a notification's callback invocations (NoEvent otherwise)
    roundtrip           \* history: the set-then-get sequence in progress, if any

\* The NacosClientManager objects.
VARIABLES
    _instance,          \* NacosClientManager._instance: a manager, or None
    manager,            \* manager -> its attributes (the object's __dict__)
    created,            \* sessions the backend has handed out so far
    failed              \* history: the <<manager, method>> of the last init call that failed

\* The dependency-injection module (core/dependencies.py).
VARIABLES
    _nacos_client_manager,  \* the module's global: a manager, or None
    initializing            \* init_nacos_registry_discovery_client calls at their await:
                            \* the managers they constructed

dependencies == <<_nacos_client_manager, initializing>>

\* The process's bootstrap configuration (utils/app_config_utils.py).
VARIABLES
    environ,            \* os.environ: variable name -> value
    conf_file,          \* the YAML file at CONFIG_FILE: its document, or NoFile
    app_config          \* the AppConfig load_config returned: its _config dict, or NotLoaded

bootstrap == <<environ, conf_file, app_config>>

lifecycle == <<_instance, manager, created, failed, dependencies, bootstrap>>

\* The naming session's registrations and the ServiceRegistry.
VARIABLES
    registered,         \* the backend's registered instances
    owned,              \* ServiceRegistry: the instances this process registered, oldest first
    done                \* history: the outcomes of the last two calls that ended

\* The FastAPI application handed to register_service.
VARIABLES
    hooks,              \* the on_startup / on_shutdown pairs installed on it, in order
    entries             \* the backend's entry of each instance: its weight and metadata

hook_side == <<hooks, entries>>

registry_side == <<registered, owned, done, hook_side>>

\* The naming session's instance lists and the ServiceDiscovery.
VARIABLES
    topology,           \* the backend's instance list of the service
    cursor,             \* ServiceDiscovery: (service, group, clusters) -> round-robin cursor
    rr_count,           \* history: key -> round-robin calls that selected an instance
    observed,           \* history: key -> the cursor values those calls read, in order
    rr_run              \* history: the latest round-robin selections made in a row on
                        \* one key and one instance list, with no change of the
                        \* service's instances in between

discovery_side == <<topology, cursor, rr_count, observed, rr_run>>

others == <<lifecycle, registry_side, discovery_side>>

vars == <<store, backend_listeners, pending, config_cache, config_listeners,
          pc, call, bres, ev, roundtrip, others>>

backend == <<store, backend_listeners, pending>>

NoListener == [data_id |-> None, group |-> None, namespace |-> None, callback |-> 0]
NoCall == [op |-> "none", data_id |-> None, group |-> None,
           namespace |-> None, content |-> None, listener |-> NoListener]
NoRes == [kind |-> "none", value |-> None]
NoEvent == [kind |-> "none"]
NoTrip == [stage |-> "none"]

Request(op, data_id, group, namespace, content, listener) ==
    [op |-> op, data_id |-> data_id, group |-> group,
     namespace |-> namespace, content |-> content, listener |-> listener]

KeyOf(c) == CacheKey(c.namespace, c.group, c.data_id)
ParamOf(c) == ConfigParam(c.data_id, c.group)

\* ---------------------------------------------- the manager's attributes

\* An object's attributes are a dict from attribute name to value; an attribute
\* that was never assigned is not in it, and reading it raises AttributeError.
HasAttr(obj, name) == name \in DOMAIN obj

\* ServiceRegistry(self.naming_service, ...), ServiceDiscovery(self.naming_service, ...)
\* and ConfigManager(self.config_service, log): components built on a session.
ServiceRegistry(session) == [component |-> "ServiceRegistry", session |-> session]
ServiceDiscovery(session) == [component |-> "ServiceDiscovery", session |-> session]
ConfigManager(session) == [component |-> "ConfigManager", session |-> session]

\* create_naming_service / create_config_service: a new session, or an exception.
CreateSession == {[kind |-> "value", value |-> created + 1], [kind |-> "raise", value |-> 0]}

\* faulty variant: the session is stored although the call failed half way
init_registry_discovery_attrs_partial(self, r) ==
    IF r.kind = "raise" THEN Put(self, "naming_service", created + 1)
    ELSE Put(Put(Put(self, "naming_service", r.value),
                 "_registry", ServiceRegistry(r.value)),
             "_discovery", ServiceDiscovery(r.value))

\* The assignments of init_registry_discovery_service after its await: none when
\* the session could not be created.
init_registry_discovery_attrs(self, r) ==
    IF r.kind = "raise" THEN self
    ELSE Put(Put(Put(self, "naming_service", r.value),
                 "_registry", ServiceRegistry(r.value)),
             "_discovery", ServiceDiscovery(r.value))

\* faulty variant: a failed config init also drops the naming components
init_config_attrs_reset(self, r) ==
    IF r.kind = "raise" THEN EmptyDict
    ELSE Put(Put(self, "config_service", r.value), "config", ConfigManager(r.value))

\* The assignments of init_config_service after its await.
init_config_attrs(self, r) ==
    IF r.kind = "raise" THEN self
    ELSE Put(Put(self, "config_service", r.value), "config", ConfigManager(r.value))

\* One manager, constructed, with both of its services initialized.
ReadyManager ==
    init_config_attrs(
        init_registry_discovery_attrs(EmptyDict, [kind |-> "value", value |-> 1]),
        [kind |-> "value", value |-> 2])

\* A ConfigManager after construction, no call in flight, and an empty backend.
InitConfig ==
    /\ store = [k \in BackendKeys |-> None]
    /\ backend_listeners = [k \in BackendKeys |-> {}]
    /\ pending = [k \in BackendKeys |-> FALSE]
    /\ config_cache = EmptyDict
    /\ config_listeners = EmptyDict
    /\ pc = [t \in Tasks |-> "idle"]
    /\ call = [t \in Tasks |-> NoCall]
    /\ bres = [t \in Tasks |-> NoRes]
    /\ ev = NoEvent
    /\ roundtrip = NoTrip

\* The process once its manager is constructed and initialized.
\* The file at CONFIG_FILE: missing, not YAML, empty (safe_load gives None), or a
\* YAML mapping.
ConfFile(kind, document) == [kind |-> kind, document |-> document]
NoFile == ConfFile("missing", EmptyDict)

\* AppConfig(config_dict), and no AppConfig yet.
AppConfig(config_dict) == [loaded |-> TRUE, _config |-> config_dict]
NotLoaded == [loaded |-> FALSE, _config |-> EmptyDict]

\* No init_nacos_registry_discovery_client call was made.
InitDependencies ==
    /\ _nacos_client_manager = 0
    /\ initializing = {}

\* No configuration file, an empty environment, load_config not called.
InitBootstrap ==
    /\ environ = EmptyDict
    /\ conf_file = NoFile
    /\ app_config = NotLoaded

InitReady ==
    /\ _instance = 1
    /\ manager = <<ReadyManager>>
    /\ created = 2
    /\ failed = <<>>
    /\ InitDependencies
    /\ InitBootstrap

\* A ServiceRegistry after construction and a backend with no instance.
InitRegistry ==
    /\ registered = {}
    /\ owned = <<>>
    /\ done = <<>>
    /\ hooks = <<>>
    /\ entries = EmptyDict

NoRun == [key |-> <<>>, list |-> <<>>, picks |-> <<>>]

\* A ServiceDiscovery after construction and a service with no instance.
InitDiscovery ==
    /\ topology = <<>>
    /\ cursor = EmptyDict
    /\ rr_count = EmptyDict
    /\ observed = EmptyDict
    /\ rr_run = NoRun

Init == InitReady /\ InitConfig /\ InitRegistry /\ InitDiscovery

\* ------------------------------------------------------------ observations

\* How a call ends: it returns a value or raises a typed error.
Returned(c, value) == [kind |-> "return", call |-> c, value |-> value, error |-> None]
Raised(c, error) == [kind |-> "raise", call |-> c, value |-> None, error |-> error]

\* The event of a call ending: the ConfigManager method's outcome, and with it what
\* the NacosClientManager method delegating to it hands its own caller (NoFacade
\* for the methods the facade does not have), and the session's answer it ended on
\* (NoRes when the session was not asked).
NoFacade == [kind |-> "none"]
Event(o, f, r) ==
    [kind |-> o.kind, call |-> o.call, value |-> o.value, error |-> o.error, facade |-> f,
     answer |-> r]

Notified(param, content, invoked) ==
    [kind |-> "notify", param |-> param, content |-> content, invoked |-> invoked]

\* History of "set(d, g, v, ns) returned true, then get(d, g, ns), with nothing else
\* on that entry in between": published -> set -> reading -> read. Any other step
\* on the same backend entry ends the sequence.
Trip(stage, t, c) == [stage |-> stage, task |-> t, request |-> c]

SameEntry(c) ==
    /\ roundtrip.stage # "none"
    /\ ParamOf(roundtrip.request) = ParamOf(c)

SameTriple(c) ==
    /\ roundtrip.stage # "none"
    /\ roundtrip.request.data_id = c.data_id
    /\ roundtrip.request.group = c.group
    /\ roundtrip.request.namespace = c.namespace

TripAfter(step, t, c) ==
    IF step = "published" THEN Trip("published", t, c)
    ELSE IF step = "set_true" /\ roundtrip.stage = "published" /\ roundtrip.task = t
        THEN Trip("set", t, roundtrip.request)
    ELSE IF step = "get_call" /\ roundtrip.stage = "set" /\ SameTriple(c)
        THEN Trip("reading", t, roundtrip.request)
    ELSE IF step = "get_backend" /\ roundtrip.stage = "reading" /\ roundtrip.task = t
        THEN roundtrip
    ELSE IF step = "get_return" /\ roundtrip.stage = "reading" /\ roundtrip.task = t
        THEN Trip("read", t, roundtrip.request)
    ELSE IF roundtrip.stage = "read" \/ SameEntry(c) THEN NoTrip
    ELSE roundtrip

TripAfterChange(param) ==
    IF roundtrip.stage = "none" THEN NoTrip
    ELSE IF roundtrip.stage = "read" \/ ParamOf(roundtrip.request) = param THEN NoTrip
    ELSE roundtrip

TripAfterQuiet == IF roundtrip.stage = "read" THEN NoTrip ELSE roundtrip

\* ------------------------------------------------- the session (backend)

\* An exception raised by the session instead of an answer.
SessionRaise == [kind |-> "raise", value |-> None]
SessionAnswer(value) == [kind |-> "value", value |-> value]

\* config_service.get_config(config_param): the entry's content (None when there
\* is no such entry), or an exception.
SessionGetConfig(param) == {SessionAnswer(store[param]), SessionRaise}

\* config_service.publish_config(config_param): True and the entry holds the
\* content, False and nothing changed, or an exception and nothing changed.
SessionPublish(param, content, r) ==
    IF r = SessionAnswer(True)
    THEN /\ store' = [store EXCEPT ![param] = content]
         /\ pending' = [pending EXCEPT ![param] = @ \/ store[param] # content]
    ELSE UNCHANGED <<store, pending>>

\* config_service.remove_config(config_param): True and the entry is gone,
\* False and nothing changed, or an exception and nothing changed.
SessionRemove(param, r) ==
    IF r = SessionAnswer(True)
    THEN /\ store' = [store EXCEPT ![param] = None]
         /\ pending' = [pending EXCEPT ![param] = @ \/ store[param] # None]
    ELSE UNCHANGED <<store, pending>>

BoolAnswers == {SessionAnswer(True), SessionAnswer(False), SessionRaise}

\* --------------------------------------------------------- task plumbing

Start(t, c) ==
    /\ pc[t] = "idle"
    /\ pc' = [pc EXCEPT ![t] = "awaiting"]
    /\ call' = [call EXCEPT ![t] = c]
    /\ UNCHANGED bres

Awaiting(t, op) == pc[t] = "awaiting" /\ call[t].op = op

Answered(t, op, r) ==
    /\ pc' = [pc EXCEPT ![t] = "resumed"]
    /\ bres' = [bres EXCEPT ![t] = r]
    /\ UNCHANGED call

Resumed(t, op) ==
    /\ pc[t] = "resumed"
    /\ call[t].op = op
    /\ pc' = [pc EXCEPT ![t] = "idle"]
    /\ call' = [call EXCEPT ![t] = NoCall]
    /\ bres' = [bres EXCEPT ![t] = NoRes]

\* ------------------------------------------------------------ get_config

get_config_call(t, data_id, group, namespace) ==
    LET c == Request("get_config", data_id, group, namespace, None, NoListener) IN
    /\ Start(t, c)
    /\ ev' = NoEvent
    /\ roundtrip' = TripAfter("get_call", t, c)
    /\ UNCHANGED others
    /\ UNCHANGED <<backend, config_cache, config_listeners>>

get_config_backend(t) ==
    /\ Awaiting(t, "get_config")
    /\ \E r \in SessionGetConfig(ParamOf(call[t])) : Answered(t, "get_config", r)
    /\ ev' = NoEvent
    /\ roundtrip' = TripAfter("get_backend", t, call[t])
    /\ UNCHANGED others
    /\ UNCHANGED <<backend, config_cache, config_listeners>>

\* faulty variant: caches only content that is truthy (`if content:`)
get_config_cache_truthy(cache, c, r) ==
    IF r.kind = "raise" \/ r.value \in {None, ""} THEN cache ELSE Put(cache, KeyOf(c), r.value)

get_config_cache(cache, c, r) ==
    IF r.kind = "raise" THEN cache ELSE Put(cache, KeyOf(c), r.value)

get_config_outcome(c, r) ==
    IF r.kind = "raise" THEN Raised(c, "ConfigError") ELSE Returned(c, r.value)

\* NacosClientManager.get_config: `return await self.config.get_config(request)`
facade_get_config(o) == o

get_config_return(t) ==
    /\ Resumed(t, "get_config")
    /\ config_cache' = get_config_cache(config_cache, call[t], bres[t])
    /\ ev' = LET o == get_config_outcome(call[t], bres[t]) IN Event(o, facade_get_config(o), bres[t])
    /\ roundtrip' = TripAfter(IF bres[t].kind = "raise" THEN "get_raise" ELSE "get_return",
                              t, call[t])
    /\ UNCHANGED others
    /\ UNCHANGED <<backend, config_listeners>>

\* ------------------------------------------------------- get_config_dict

\* Contents a config entry may hold as text: JSON, YAML, plain text, broken text.
DictContents == {"", "{\"a\": 1}", "{}", "[1]", "1", "a: 1", "hello", "a: ["}

\* A Python value by its type and its repr.
PyValue(type, repr) == [type |-> type, repr |-> repr]

Parsed(type, repr) == [kind |-> "value", value |-> PyValue(type, repr)]
ParseError(error) == [kind |-> "raise", error |-> error]

\* json.loads(content): the value of a JSON document of any type, JSONDecodeError
\* for any other text.
json_loads(content) ==
    CASE content = "{\"a\": 1}" -> Parsed("dict", "{'a': 1}")
      [] content = "{}" -> Parsed("dict", "{}")
      [] content = "[1]" -> Parsed("list", "[1]")
      [] content = "1" -> Parsed("int", "1")
      [] OTHER -> ParseError("JSONDecodeError")

\* yaml.safe_load(content): JSON documents load as in JSON, `key: value` is a
\* mapping, plain text is a string scalar, an unclosed flow sequence is a YAMLError.
yaml_safe_load(content) ==
    CASE content = "a: 1" -> Parsed("dict", "{'a': 1}")
      [] content = "hello" -> Parsed("str", "'hello'")
      [] content = "" -> Parsed("NoneType", "None")
      [] content = "a: [" -> ParseError("YAMLError")
      [] OTHER -> json_loads(content)

\* `if not content`
Falsy(content) == content \in {None, ""}

get_config_dict_call(t, data_id, group, namespace) ==
    LET c == Request("get_config_dict", data_id, group, namespace, None, NoListener) IN
    /\ Start(t, c)
    /\ ev' = NoEvent
    /\ roundtrip' = TripAfter("dict_call", t, c)
    /\ UNCHANGED others
    /\ UNCHANGED <<backend, config_cache, config_listeners>>

get_config_dict_backend(t) ==
    /\ Awaiting(t, "get_config_dict")
    /\ \E r \in SessionGetConfig(ParamOf(call[t])) : Answered(t, "get_config_dict", r)
    /\ ev' = NoEvent
    /\ roundtrip' = TripAfter("dict_backend", t, call[t])
    /\ UNCHANGED others
    /\ UNCHANGED <<backend, config_cache, config_listeners>>

\* JSON first; YAML only when json.loads raised JSONDecodeError.
get_config_dict_parse(content) ==
    IF json_loads(content).kind = "value" THEN json_loads(content)
    ELSE yaml_safe_load(content)

\* The outcome of get_config is that of the inner `await self.get_config(request)`;
\* its ConfigError is not caught here.
get_config_dict_outcome(c, r) ==
    LET inner == get_config_outcome(c, r) IN
    IF inner.kind = "raise" THEN inner
    ELSE IF Falsy(inner.value) THEN Returned(c, PyValue("dict", "{}"))
    ELSE IF get_config_dict_parse(inner.value).kind = "value"
         THEN Returned(c, get_config_dict_parse(inner.value).value)
    ELSE Raised(c, "ConfigError")

get_config_dict_return(t) ==
    /\ Resumed(t, "get_config_dict")
    /\ config_cache' = get_config_cache(config_cache, call[t], bres[t])
    /\ ev' = Event(get_config_dict_outcome(call[t], bres[t]), NoFacade, bres[t])
    /\ roundtrip' = TripAfter("dict_return", t, call[t])
    /\ UNCHANGED others
    /\ UNCHANGED <<backend, config_listeners>>

\* ------------------------------------------------------------ set_config

set_config_call(t, data_id, group, content, namespace) ==
    LET c == Request("set_config", data_id, group, namespace, content, NoListener) IN
    /\ Start(t, c)
    /\ ev' = NoEvent
    /\ roundtrip' = TripAfter("set_call", t, c)
    /\ UNCHANGED others
    /\ UNCHANGED <<backend, config_cache, config_listeners>>

\* faulty variant: the content is left out of the ConfigParam
set_config_param_no_content(c) == [param |-> ConfigParam(c.data_id, c.group), content |-> ""]

\* ConfigParam(data_id=data_id, group=group, content=content)
set_config_param(c) == [param |-> ConfigParam(c.data_id, c.group), content |-> c.content]

set_config_backend(t) ==
    /\ Awaiting(t, "set_config")
    /\ \E r \in BoolAnswers :
        /\ Answered(t, "set_config", r)
        /\ SessionPublish(set_config_param(call[t]).param, set_config_param(call[t]).content, r)
        /\ roundtrip' = TripAfter(IF r = SessionAnswer(True) THEN "published" ELSE "set_backend",
                                  t, call[t])
    /\ ev' = NoEvent
    /\ UNCHANGED <<backend_listeners, config_cache, config_listeners, others>>

\* faulty variant: the cache is updated without looking at the result
set_config_cache_always(cache, c, r) ==
    IF r.kind = "value" THEN Put(cache, KeyOf(c), c.content) ELSE cache

set_config_cache(cache, c, r) ==
    IF r.kind = "value" /\ r.value = True THEN Put(cache, KeyOf(c), c.content) ELSE cache

\* faulty variant: the exception is logged and turned into False
set_config_outcome_swallow(c, r) ==
    IF r.kind = "raise" THEN Returned(c, False) ELSE Returned(c, r.value)

set_config_outcome(c, r) ==
    IF r.kind = "raise" THEN Raised(c, "ConfigError") ELSE Returned(c, r.value)

\* NacosClientManager.set_config: `return await self.config.set_config(...)`
facade_set_config(o) == o

set_config_return(t) ==
    /\ Resumed(t, "set_config")
    /\ config_cache' = set_config_cache(config_cache, call[t], bres[t])
    /\ ev' = LET o == set_config_outcome(call[t], bres[t]) IN Event(o, facade_set_config(o), bres[t])
    /\ roundtrip' = TripAfter(IF bres[t] = SessionAnswer(True) THEN "set_true" ELSE "set_fail",
                              t, call[t])
    /\ UNCHANGED others
    /\ UNCHANGED <<backend, config_listeners>>

\* --------------------------------------------------------- delete_config

delete_config_call(t, data_id, group, namespace) ==
    LET c == Request("delete_config", data_id, group, namespace, None, NoListener) IN
    /\ Start(t, c)
    /\ ev' = NoEvent
    /\ roundtrip' = TripAfter("delete_call", t, c)
    /\ UNCHANGED others
    /\ UNCHANGED <<backend, config_cache, config_listeners>>

delete_config_backend(t) ==
    /\ Awaiting(t, "delete_config")
    /\ \E r \in BoolAnswers :
        /\ Answered(t, "delete_config", r)
        /\ SessionRemove(ParamOf(call[t]), r)
    /\ ev' = NoEvent
    /\ roundtrip' = TripAfter("delete_backend", t, call[t])
    /\ UNCHANGED others
    /\ UNCHANGED <<backend_listeners, config_cache, config_listeners>>

\* faulty variant: the cache entry is not evicted
delete_config_cache_keep(cache, c, r) == cache

delete_config_cache(cache, c, r) ==
    IF r.kind = "value" /\ r.value = True /\ KeyOf(c) \in DOMAIN cache
    THEN Del(cache, KeyOf(c)) ELSE cache

delete_config_outcome(c, r) ==
    IF r.kind = "raise" THEN Raised(c, "ConfigError") ELSE Returned(c, r.value)

delete_config_return(t) ==
    /\ Resumed(t, "delete_config")
    /\ config_cache' = delete_config_cache(config_cache, call[t], bres[t])
    /\ ev' = Event(delete_config_outcome(call[t], bres[t]), NoFacade, bres[t])
    /\ roundtrip' = TripAfter("delete_return", t, call[t])
    /\ UNCHANGED others
    /\ UNCHANGED <<backend, config_listeners>>

\* ---------------------------------------------------------- add_listener

\* config_service.add_listener(data_id, group, listener): the callback joins the
\* callbacks the session invokes for the entry, or an exception and nothing changed.
SessionAddListener(param, callback, r) ==
    IF r.kind = "value"
    THEN backend_listeners' = [backend_listeners EXCEPT ![param] = @ \cup {callback}]
    ELSE UNCHANGED backend_listeners

\* config_service.remove_listener(data_id, group, listener): that callback leaves
\* the entry's callbacks, or an exception and nothing changed.
SessionRemoveListener(param, callback, r) ==
    IF r.kind = "value"
    THEN backend_listeners' = [backend_listeners EXCEPT ![param] = @ \ {callback}]
    ELSE UNCHANGED backend_listeners

VoidAnswers == {SessionAnswer(None), SessionRaise}

\* faulty variant: the registry is rebuilt around the new listener
add_listener_record_only(listeners, listener) ==
    Put(EmptyDict, CacheKey(listener.namespace, listener.group, listener.data_id), listener)

add_listener_record(listeners, listener) ==
    Put(listeners, CacheKey(listener.namespace, listener.group, listener.data_id), listener)

\* History kept with an add_listener call: the listener its key held when the call
\* was made (NoListener when it held none).
Replacing(c, listeners) ==
    [op |-> c.op, data_id |-> c.data_id, group |-> c.group, namespace |-> c.namespace,
     content |-> c.content, listener |-> c.listener,
     replaced |-> IF KeyOf(c) \in DOMAIN listeners THEN listeners[KeyOf(c)] ELSE NoListener]

add_listener_call(t, data_id, group, namespace, callback) ==
    LET listener == ConfigListener(data_id, group, namespace, callback)
        c == Replacing(Request("add_listener", data_id, group, namespace, None, listener),
                       config_listeners) IN
    /\ Start(t, c)
    /\ config_listeners' = add_listener_record(config_listeners, listener)
    /\ ev' = NoEvent
    /\ roundtrip' = TripAfter("add_call", t, c)
    /\ UNCHANGED others
    /\ UNCHANGED <<backend, config_cache>>

add_listener_backend(t) ==
    /\ Awaiting(t, "add_listener")
    /\ \E r \in VoidAnswers :
        /\ Answered(t, "add_listener", r)
        /\ SessionAddListener(ParamOf(call[t].listener), call[t].listener.callback, r)
    /\ ev' = NoEvent
    /\ roundtrip' = TripAfter("add_backend", t, call[t])
    /\ UNCHANGED others
    /\ UNCHANGED <<store, pending, config_cache, config_listeners>>

\* faulty variant: a failed registration is reported as False
add_listener_outcome_false(c, r) ==
    IF r.kind = "raise" THEN Returned(c, False) ELSE Returned(c, True)

add_listener_outcome(c, r) ==
    IF r.kind = "raise" THEN Raised(c, "ConfigListenerError") ELSE Returned(c, True)

\* NacosClientManager.add_config_listener: `return await self.config.add_listener(listener)`
facade_add_config_listener(o) == o

add_listener_return(t) ==
    /\ Resumed(t, "add_listener")
    /\ ev' = LET o == add_listener_outcome(call[t], bres[t]) IN Event(o, facade_add_config_listener(o), bres[t])
    /\ roundtrip' = TripAfter("add_return", t, call[t])
    /\ UNCHANGED others
    /\ UNCHANGED <<backend, config_cache, config_listeners>>

\* ------------------------------------------------------- remove_listener

\* `if listener_key in self.config_listeners`
remove_listener_known(listeners, c) == KeyOf(c) \in DOMAIN listeners

remove_listener_call(t, data_id, group, namespace) ==
    LET c == Request("remove_listener", data_id, group, namespace, None, NoListener) IN
    /\ pc[t] = "idle"
    /\ roundtrip' = TripAfter("remove_call", t, c)
    /\ UNCHANGED others
    /\ IF remove_listener_known(config_listeners, c)
       THEN /\ Start(t, [c EXCEPT !.listener = config_listeners[KeyOf(c)]])
            /\ ev' = NoEvent
       ELSE /\ ev' = Event(Returned(c, False), NoFacade, NoRes)
            /\ UNCHANGED <<pc, call, bres>>
    /\ UNCHANGED <<backend, config_cache, config_listeners>>

remove_listener_backend(t) ==
    /\ Awaiting(t, "remove_listener")
    /\ \E r \in VoidAnswers :
        /\ Answered(t, "remove_listener", r)
        /\ SessionRemoveListener(ParamOf(call[t].listener), call[t].listener.callback, r)
    /\ ev' = NoEvent
    /\ roundtrip' = TripAfter("remove_backend", t, call[t])
    /\ UNCHANGED others
    /\ UNCHANGED <<store, pending, config_cache, config_listeners>>

\* faulty variant: the record is kept
remove_listener_record_keep(listeners, c, r) == listeners

\* `del self.config_listeners[listener_key]` raises KeyError when the key is gone.
remove_listener_record(listeners, c, r) ==
    IF r.kind = "value" /\ KeyOf(c) \in DOMAIN listeners THEN Del(listeners, KeyOf(c))
    ELSE listeners

remove_listener_outcome(listeners, c, r) ==
    IF r.kind = "value" /\ KeyOf(c) \in DOMAIN listeners THEN Returned(c, True)
    ELSE Raised(c, "ConfigListenerError")

remove_listener_return(t) ==
    /\ Resumed(t, "remove_listener")
    /\ config_listeners' = remove_listener_record(config_listeners, call[t], bres[t])
    /\ ev' = Event(remove_listener_outcome(config_listeners, call[t], bres[t]), NoFacade, bres[t])
    /\ roundtrip' = TripAfter("remove_return", t, call[t])
    /\ UNCHANGED others
    /\ UNCHANGED <<backend, config_cache>>

\* ------------------------------------------------- get_cache, clear_cache

SyncCall(op) == Request(op, None, None, None, None, NoListener)

get_cache(t) ==
    /\ pc[t] = "idle"
    /\ ev' = [kind |-> "return", call |-> SyncCall("get_cache"), value |-> "<dict>",
              error |-> None, facade |-> NoFacade, answer |-> NoRes,
              mapping |-> config_cache]
    /\ roundtrip' = TripAfterQuiet
    /\ UNCHANGED others
    /\ UNCHANGED <<backend, config_cache, config_listeners, pc, call, bres>>

\* faulty variant: the listener registry is reset with the cache
clear_cache_all(t) ==
    /\ pc[t] = "idle"
    /\ config_cache' = EmptyDict
    /\ config_listeners' = EmptyDict
    /\ ev' = Event(Returned(SyncCall("clear_cache"), True), NoFacade, NoRes)
    /\ roundtrip' = NoTrip
    /\ UNCHANGED others
    /\ UNCHANGED <<backend, pc, call, bres>>

clear_cache(t) ==
    /\ pc[t] = "idle"
    /\ config_cache' = EmptyDict
    /\ ev' = Event(Returned(SyncCall("clear_cache"), True), NoFacade, NoRes)
    /\ roundtrip' = NoTrip
    /\ UNCHANGED others
    /\ UNCHANGED <<backend, config_listeners, pc, call, bres>>

\* ------------------------------------------------- the backend's own steps

\* Another client changes or removes the entry.
RemoteChange(param, content) ==
    /\ store[param] # content
    /\ store' = [store EXCEPT ![param] = content]
    /\ pending' = [pending EXCEPT ![param] = TRUE]
    /\ ev' = NoEvent
    /\ roundtrip' = TripAfterChange(param)
    /\ UNCHANGED others
    /\ UNCHANGED <<backend_listeners, config_cache, config_listeners, pc, call, bres>>

\* The session pushes a change of the entry: it invokes every callback registered
\* for it with the new content.
\* faulty variant: the function handed to the session is a wrapper that stores the
\* new content in the cache before it calls the listener's callback
on_change_caching(cache, listeners, param, content) ==
    LET keys == {k \in DOMAIN listeners : ParamOf(listeners[k]) = param} IN
    [k \in (DOMAIN cache) \cup keys |-> IF k \in keys THEN content ELSE cache[k]]

\* What a pushed change does to the cache: add_listener hands the session
\* `listener.callback` itself, so only the caller's function runs.
on_change(cache, listeners, param, content) == cache

Notify(param) ==
    /\ pending[param]
    /\ pending' = [pending EXCEPT ![param] = FALSE]
    /\ config_cache' = IF backend_listeners[param] = {} THEN config_cache
                       ELSE on_change(config_cache, config_listeners, param, store[param])
    /\ ev' = Notified(param, store[param], backend_listeners[param])
    /\ roundtrip' = TripAfterQuiet
    /\ UNCHANGED others
    /\ UNCHANGED <<store, backend_listeners, config_listeners, pc, call, bres>>

\* ------------------------------------------------------ NacosClientManager

config_side == <<store, backend_listeners, pending, config_cache, config_listeners,
                 pc, call, bres, roundtrip>>

components == <<config_side, registry_side, discovery_side>>

ManagerCall(op, m) == [op |-> op, manager |-> m]

\* NacosClientManager(): the new object has no attribute yet and becomes _instance.
NacosClientManager_init ==
    /\ Len(manager) < NumManagers
    /\ manager' = Append(manager, EmptyDict)
    /\ _instance' = Len(manager) + 1
    /\ ev' = Event(Returned(ManagerCall("__init__", Len(manager) + 1), None), NoFacade, NoRes)
    /\ UNCHANGED <<created, failed, dependencies, bootstrap, components>>

init_outcome(c, r) ==
    IF r.kind = "raise" THEN Raised(c, "NacosConnectionError") ELSE Returned(c, None)

\* Nothing is read or written before the await, so the call is one step: the
\* session is created or not, and the assignments after the await follow.
init_registry_discovery_service(m) ==
    LET c == ManagerCall("init_registry_discovery_service", m) IN
    /\ m \in DOMAIN manager
    /\ \E r \in CreateSession :
        /\ r.kind = "value" => created < MaxSessions
        /\ manager' = [manager EXCEPT ![m] = init_registry_discovery_attrs(@, r)]
        /\ created' = IF r.kind = "value" THEN created + 1 ELSE created
        /\ failed' = IF r.kind = "raise" THEN <<m, c.op>> ELSE failed
        /\ ev' = Event(init_outcome(c, r), NoFacade, r)
    /\ UNCHANGED <<_instance, dependencies, bootstrap, components>>

init_config_service(m) ==
    LET c == ManagerCall("init_config_service", m) IN
    /\ m \in DOMAIN manager
    /\ \E r \in CreateSession :
        /\ r.kind = "value" => created < MaxSessions
        /\ manager' = [manager EXCEPT ![m] = init_config_attrs(@, r)]
        /\ created' = IF r.kind = "value" THEN created + 1 ELSE created
        /\ failed' = IF r.kind = "raise" THEN <<m, c.op>> ELSE failed
        /\ ev' = Event(init_outcome(c, r), NoFacade, r)
    /\ UNCHANGED <<_instance, dependencies, bootstrap, components>>

\* A facade method reaching its component: what the caller gets is the outcome of
\* the component's method.
Delegated(c, component) ==
    [kind |-> "delegated", call |-> c, value |-> component, error |-> None]

\* `self.registry`, `self.discovery`, `self.config`: the attribute is read, which
\* raises AttributeError when it was never assigned, and the call goes to it.
Delegate(m, op, attr) ==
    LET c == ManagerCall(op, m)
        o == IF HasAttr(manager[m], attr) THEN Delegated(c, manager[m][attr])
             ELSE Raised(c, "AttributeError") IN
    /\ m \in DOMAIN manager
    /\ ev' = Event(o, o, NoRes)
    /\ UNCHANGED <<lifecycle, components>>

NacosClientManager_register_service(m) == Delegate(m, "register_service", "_registry")
NacosClientManager_deregister_service(m) == Delegate(m, "deregister_service", "_registry")
NacosClientManager_get_service_instances(m) == Delegate(m, "get_service_instances", "_discovery")
NacosClientManager_choose_one_instance(m) == Delegate(m, "choose_one_instance", "_discovery")
NacosClientManager_get_config(m) == Delegate(m, "get_config", "config")
NacosClientManager_set_config(m) == Delegate(m, "set_config", "config")
NacosClientManager_add_config_listener(m) == Delegate(m, "add_config_listener", "config")

\* `return cls._instance`; 0 stands for None.
get_instance ==
    /\ ev' = Event(Returned(ManagerCall("get_instance", 0), _instance), NoFacade, NoRes)
    /\ UNCHANGED <<lifecycle, components>>

\* `return cls._instance.registry`
get_registry_instance ==
    LET c == ManagerCall("get_registry_instance", 0)
        o == IF _instance = 0 THEN Raised(c, "AttributeError")
             ELSE IF HasAttr(manager[_instance], "_registry")
                  THEN Returned(c, manager[_instance]["_registry"])
             ELSE Raised(c, "AttributeError") IN
    /\ ev' = Event(o, NoFacade, NoRes)
    /\ UNCHANGED <<lifecycle, components>>

\* ------------------------------------------------- core/dependencies.py

\* `_nacos_client_manager = NacosClientManager()`: the global is assigned the new
\* manager, which is also NacosClientManager._instance, before the init is awaited.
init_nacos_registry_discovery_client_call ==
    /\ Len(manager) < NumManagers
    /\ manager' = Append(manager, EmptyDict)
    /\ _instance' = Len(manager) + 1
    /\ _nacos_client_manager' = Len(manager) + 1
    /\ initializing' = initializing \cup {Len(manager) + 1}
    /\ ev' = NoEvent
    /\ UNCHANGED <<created, failed, bootstrap, components>>

\* `await _nacos_client_manager.init_registry_discovery_service(...)` on the manager
\* the call constructed; its NacosConnectionError goes to the caller as it is.
init_nacos_registry_discovery_client_return(m) ==
    LET c == ManagerCall("init_nacos_registry_discovery_client", m) IN
    /\ m \in initializing
    /\ \E r \in CreateSession :
        /\ r.kind = "value" => created < MaxSessions
        /\ manager' = [manager EXCEPT ![m] = init_registry_discovery_attrs(@, r)]
        /\ created' = IF r.kind = "value" THEN created + 1 ELSE created
        /\ failed' = IF r.kind = "raise" THEN <<m, c.op>> ELSE failed
        /\ ev' = Event(init_outcome(c, r), NoFacade, r)
    /\ initializing' = initializing \ {m}
    /\ UNCHANGED <<_instance, _nacos_client_manager, bootstrap, components>>

\* `if _nacos_client_manager is None: raise HTTPException(500)`, else the global.
get_nacos_client_outcome(c) ==
    IF _nacos_client_manager = 0 THEN Raised(c, "HTTPException 500")
    ELSE Returned(c, _nacos_client_manager)

get_nacos_client ==
    /\ ev' = Event(get_nacos_client_outcome(ManagerCall("get_nacos_client", 0)), NoFacade, NoRes)
    /\ UNCHANGED <<lifecycle, components>>

\* get_service_registry, get_service_discovery, get_config_manager: the manager comes
\* from Depends(get_nacos_client), and the attribute is read on it.
Dependency(op, attr) ==
    LET c == ManagerCall(op, 0)
        d == get_nacos_client_outcome(c)
        o == IF d.kind = "raise" THEN d
             ELSE IF HasAttr(manager[d.value], attr) THEN Returned(c, manager[d.value][attr])
             ELSE Raised(c, "AttributeError") IN
    /\ ev' = Event(o, NoFacade, NoRes)
    /\ UNCHANGED <<lifecycle, components>>

get_service_registry == Dependency("get_service_registry", "_registry")
get_service_discovery == Dependency("get_service_discovery", "_discovery")
get_config_manager == Dependency("get_config_manager", "config")

\* --------------------------------------------------------- ServiceRegistry

ServiceNames == {"svc"}
GroupNames == {"DEFAULT_GROUP"}
ClusterNames == {"DEFAULT"}
Ips == {"ip1", "ip2"}
Ports == {8080}
NoPort == 0             \* `port: Optional[int] = None`: 0 stands for None

config_state == <<store, backend_listeners, pending, config_cache, config_listeners, roundtrip>>

\* Identity of an instance = (serviceName, groupName, ip, port, clusterName).
Instance(service_name, group_name, ip, port, cluster_name) ==
    [service_name |-> service_name, group_name |-> group_name, ip |-> ip, port |-> port,
     cluster_name |-> cluster_name]

NoInstance == Instance(None, None, None, NoPort, None)

\* The weight and metadata of an instance's entry at the backend.
Entry(weight, metadata) == [weight |-> weight, metadata |-> metadata]

\* `weight: float = 1.0`, `metadata or {}`
DefaultEntry == Entry("1.0", "{}")

\* A call made by a hook of the application: which event handler, of which installed
\* pair; NoHook for a call the application code makes itself.
Hook(event, pair) == [event |-> event, pair |-> pair]
NoHook == Hook(None, 0)

RegistryCall(op, service_name, group_name, ip, port, cluster_name) ==
    [op |-> op, service_name |-> service_name, group_name |-> group_name, ip |-> ip,
     port |-> port, cluster_name |-> cluster_name, resolved |-> NoInstance,
     weight |-> DefaultEntry.weight, metadata |-> DefaultEntry.metadata,
     fastapi_app |-> None, hook |-> NoHook]

InstanceOf(c) == Instance(c.service_name, c.group_name, c.ip, c.port, c.cluster_name)

\* The (serviceName, groupName, clusterName) key of the ownership records.
OwnerKey(i) == <<i.service_name, i.group_name, i.cluster_name>>

Without(records, i) == SelectSeq(records, LAMBDA x : x # i)

Under(records, key) == SelectSeq(records, LAMBDA x : OwnerKey(x) = key)

\* The outcomes of the last two calls that ended.
Last2(d, e) == IF Len(d) < 2 THEN Append(d, e) ELSE <<d[2], e>>

\* NacosClientManager.register_service / deregister_service:
\* `return await self.registry....(...)`
facade_register_service(o) == o

\* faulty variant: the facade turns the registry's error into False
facade_deregister_service_swallow(o) ==
    IF o.kind = "raise" THEN Returned(o.call, False) ELSE o

facade_deregister_service(o) == o

\* faulty variant: the handler lets the exception reach the application
hook_outcome_reraise(c, f) == IF f.kind = "raise" THEN f ELSE Returned(c, None)

\* on_startup / on_shutdown: `try: await self....(...)` and `except Exception` that
\* only logs, so the handler returns None whatever the call did.
hook_outcome(c, f) == Returned(c, None)

\* The event of a call ending, with what the handler hands the application when a
\* hook made the call.
HookEvent(e) ==
    IF e.call.hook = NoHook THEN e
    ELSE [kind |-> e.kind, call |-> e.call, value |-> e.value, error |-> e.error,
          facade |-> e.facade, answer |-> e.answer, app |-> hook_outcome(e.call, e.facade)]

\* The pair of handlers _setup_fastapi_hooks installs: they hold service_name,
\* group_name, ip, port and cluster_name of the call, not its weight or metadata
\* (`original`, the entry that call created, is history).
HookPair(c) == [instance |-> InstanceOf(c), original |-> Entry(c.weight, c.metadata)]

\* `if fastapi_app: self._setup_fastapi_hooks(...)`, after the awaited registration.
register_service_hooks(installed, c, r) ==
    IF r.kind # "raise" /\ c.fastapi_app # None THEN Append(installed, HookPair(c))
    ELSE installed

\* registerInstance: the backend holds the instance with the weight and metadata of
\* the request, or an exception and nothing changed.
SessionRegister(i, r) ==
    IF r = SessionAnswer(True) THEN registered' = registered \cup {i}
    ELSE UNCHANGED registered

SessionEntry(i, e, r) == IF r = SessionAnswer(True) THEN Put(entries, i, e) ELSE entries

SessionNoEntry(i, r) ==
    IF r = SessionAnswer(True) /\ i \in DOMAIN entries THEN Del(entries, i) ELSE entries

\* deregisterInstance: True and the instance is gone, False and nothing changed,
\* or an exception and nothing changed.
SessionDeregister(i, r) ==
    IF r = SessionAnswer(True) THEN registered' = registered \ {i}
    ELSE UNCHANGED registered

RegisterAnswers == {SessionAnswer(True), SessionRaise}

\* ServiceRegisterRequest(service_name, group_name, ip, port, weight, metadata, ...)
register_service_request(service_name, group_name, ip, port, cluster_name, weight, metadata, fastapi_app) ==
    [RegistryCall("register_service", service_name, group_name, ip, port, cluster_name)
        EXCEPT !.weight = weight, !.metadata = metadata, !.fastapi_app = fastapi_app]

register_service_call(t, service_name, group_name, ip, port, cluster_name, weight, metadata, fastapi_app) ==
    /\ fastapi_app # None => Len(hooks) < MaxHooks
    /\ Start(t, register_service_request(service_name, group_name, ip, port, cluster_name,
                                         weight, metadata, fastapi_app))
    /\ ev' = NoEvent
    /\ UNCHANGED <<config_state, lifecycle, discovery_side, registry_side>>

register_service_backend(t) ==
    /\ Awaiting(t, "register_service")
    /\ \E r \in RegisterAnswers :
        /\ Answered(t, "register_service", r)
        /\ SessionRegister(InstanceOf(call[t]), r)
        /\ entries' = SessionEntry(InstanceOf(call[t]), Entry(call[t].weight, call[t].metadata), r)
    /\ ev' = NoEvent
    /\ UNCHANGED <<config_state, lifecycle, discovery_side, owned, done, hooks>>

\* On success the instance is recorded as owned, as the most recent one.
register_service_record(records, c, r) ==
    IF r.kind = "raise" THEN records ELSE Append(Without(records, InstanceOf(c)), InstanceOf(c))

register_service_outcome(c, r) ==
    IF r.kind = "raise" THEN Raised(c, "ServiceRegistrationError")
    ELSE Returned(c, InstanceOf(c))

register_service_return(t) ==
    LET o == register_service_outcome(call[t], bres[t])
        e == HookEvent(Event(o, facade_register_service(o), bres[t])) IN
    /\ Resumed(t, "register_service")
    /\ owned' = register_service_record(owned, call[t], bres[t])
    /\ hooks' = register_service_hooks(hooks, call[t], bres[t])
    /\ ev' = e
    /\ done' = Last2(done, e)
    /\ UNCHANGED <<config_state, lifecycle, discovery_side, registered, entries>>

\* `ip` or `port` omitted
deregister_service_omits(c) == c.ip = None \/ c.port = NoPort

\* The instance to deregister: the one named, or with ip/port omitted the most
\* recent one this process registered under the key (NoInstance when there is none).
deregister_service_resolve(records, c) ==
    LET under == Under(records, OwnerKey(InstanceOf(c))) IN
    IF ~deregister_service_omits(c) THEN InstanceOf(c)
    ELSE IF Len(under) = 0 THEN NoInstance
    ELSE under[Len(under)]

deregister_service_call(t, service_name, group_name, ip, port, cluster_name) ==
    LET c == RegistryCall("deregister_service", service_name, group_name, ip, port, cluster_name)
        i == deregister_service_resolve(owned, c)
        o == Raised(c, "ServiceRegistrationError")
        e == Event(o, facade_deregister_service(o), NoRes) IN
    /\ pc[t] = "idle"
    /\ IF i = NoInstance
       THEN /\ ev' = e
            /\ done' = Last2(done, e)
            /\ UNCHANGED <<pc, call, bres>>
       ELSE /\ Start(t, [c EXCEPT !.resolved = i])
            /\ ev' = NoEvent
            /\ UNCHANGED done
    /\ UNCHANGED <<config_state, lifecycle, discovery_side, registered, owned, hook_side>>

deregister_service_backend(t) ==
    /\ Awaiting(t, "deregister_service")
    /\ \E r \in BoolAnswers :
        /\ Answered(t, "deregister_service", r)
        /\ SessionDeregister(call[t].resolved, r)
        /\ entries' = SessionNoEntry(call[t].resolved, r)
    /\ ev' = NoEvent
    /\ UNCHANGED <<config_state, lifecycle, discovery_side, owned, done, hooks>>

\* The ownership record is removed when the backend call succeeded.
deregister_service_record(records, c, r) ==
    IF r = SessionAnswer(True) THEN Without(records, c.resolved) ELSE records

deregister_service_outcome(c, r) ==
    IF r.kind = "raise" THEN Raised(c, "ServiceRegistrationError")
    ELSE IF r.value = True THEN Returned(c, True)
    ELSE Returned(c, False)

deregister_service_return(t) ==
    LET o == deregister_service_outcome(call[t], bres[t])
        e == HookEvent(Event(o, facade_deregister_service(o), bres[t])) IN
    /\ Resumed(t, "deregister_service")
    /\ owned' = deregister_service_record(owned, call[t], bres[t])
    /\ ev' = e
    /\ done' = Last2(done, e)
    /\ UNCHANGED <<config_state, lifecycle, discovery_side, registered, hook_side>>

\* --------------------------------------------- the application's hooks

\* on_startup of an installed pair: `await self.register_service(service_name, ip,
\* port, group_name, cluster_name, ephemeral)`, with no weight, metadata or
\* fastapi_app.
on_startup_request(n) ==
    LET i == hooks[n].instance IN
    [RegistryCall("register_service", i.service_name, i.group_name, i.ip, i.port, i.cluster_name)
        EXCEPT !.hook = Hook("on_startup", n)]

on_startup_call(t, n) ==
    /\ n \in 1..Len(hooks)
    /\ Start(t, on_startup_request(n))
    /\ ev' = NoEvent
    /\ UNCHANGED <<config_state, lifecycle, discovery_side, registry_side>>

\* on_shutdown of an installed pair: `await self.deregister_service(service_name,
\* group_name, ip, port, cluster_name, ephemeral)`, ip and port given.
on_shutdown_request(n) ==
    LET i == hooks[n].instance IN
    [RegistryCall("deregister_service", i.service_name, i.group_name, i.ip, i.port,
                  i.cluster_name)
        EXCEPT !.hook = Hook("on_shutdown", n)]

on_shutdown_call(t, n) ==
    LET c == on_shutdown_request(n) IN
    /\ n \in 1..Len(hooks)
    /\ Start(t, [c EXCEPT !.resolved = deregister_service_resolve(owned, c)])
    /\ ev' = NoEvent
    /\ UNCHANGED <<config_state, lifecycle, discovery_side, registry_side>>

\* -------------------------------------------------------- ServiceDiscovery

ClusterSets == {None, "c1"}     \* `clusters`: None, or the list ["c1"]
Strategies == {"random", "round_robin", "fastest"}   \* "fastest": not a strategy

\* The strategies choose_one_instance knows.
KnownStrategies == {"random", "round_robin", "weight_random"}

\* The backend's lists: up to MaxInstances instances of the service, each healthy or not.
ServiceInstance(port, healthy) == [ip |-> "ip1", port |-> port, healthy |-> healthy]

Topologies ==
    UNION {{[i \in 1..n |-> ServiceInstance(i, h[i])] : h \in [1..n -> {True, False}]} :
           n \in 0..MaxInstances}

DiscoveryCall(op, service_name, group_name, healthy_only, clusters, strategy) ==
    [op |-> op, service_name |-> service_name, group_name |-> group_name,
     healthy_only |-> healthy_only, clusters |-> clusters, strategy |-> strategy]

\* The key of the round-robin cursor.
CursorKey(c) == <<c.service_name, c.group_name, c.clusters>>

Get(dict, k, default) == IF k \in DOMAIN dict THEN dict[k] ELSE default

\* listInstances: the instance list, or an exception.
SessionListInstances == {SessionAnswer(topology), SessionRaise}

\* faulty variant: the facade does not pass the strategy on, the default applies
facade_choose_one_instance_args_default(c) == [c EXCEPT !.strategy = "random"]

\* NacosClientManager.choose_one_instance: the arguments go to the discovery as given.
facade_choose_one_instance_args(c) == c

\* ... and its outcome comes back as it is.
facade_choose_one_instance(o) == o

\* `healthy_only`: only the instances with healthy == true.
get_service_instances_filter(list, healthy_only) ==
    IF healthy_only = True THEN SelectSeq(list, LAMBDA i : i.healthy = True) ELSE list

\* faulty variant: the facade takes an empty list for a failure
facade_get_service_instances_strict(o) ==
    IF o.kind = "return" /\ Len(o.value) = 0 THEN Raised(o.call, "ServiceDiscoveryError") ELSE o

\* NacosClientManager.get_service_instances:
\* `return await self.discovery.get_service_instances(...)`
facade_get_service_instances(o) == o

get_service_instances_call(t, service_name, group_name, healthy_only, clusters) ==
    /\ Start(t, DiscoveryCall("get_service_instances", service_name, group_name, healthy_only,
                              clusters, None))
    /\ ev' = NoEvent
    /\ UNCHANGED <<config_state, lifecycle, registry_side, discovery_side>>

get_service_instances_backend(t) ==
    /\ Awaiting(t, "get_service_instances")
    /\ \E r \in SessionListInstances : Answered(t, "get_service_instances", r)
    /\ ev' = NoEvent
    /\ UNCHANGED <<config_state, lifecycle, registry_side, discovery_side>>

\* A failed query is a ServiceDiscoveryError; any list, the empty one too, is returned.
get_service_instances_outcome(c, r) ==
    IF r.kind = "raise" THEN Raised(c, "ServiceDiscoveryError")
    ELSE Returned(c, get_service_instances_filter(r.value, c.healthy_only))

get_service_instances_return(t) ==
    LET o == get_service_instances_outcome(call[t], bres[t]) IN
    /\ Resumed(t, "get_service_instances")
    /\ ev' = Event(o, facade_get_service_instances(o), bres[t])
    /\ UNCHANGED <<config_state, lifecycle, registry_side, discovery_side>>

choose_one_instance_call(t, service_name, group_name, healthy_only, clusters, strategy) ==
    /\ Start(t, DiscoveryCall("choose_one_instance", service_name, group_name, healthy_only,
                              clusters, strategy))
    /\ ev' = NoEvent
    /\ UNCHANGED <<config_state, lifecycle, registry_side, discovery_side>>

choose_one_instance_backend(t) ==
    /\ Awaiting(t, "choose_one_instance")
    /\ \E r \in SessionListInstances : Answered(t, "choose_one_instance", r)
    /\ ev' = NoEvent
    /\ UNCHANGED <<config_state, lifecycle, registry_side, discovery_side>>

\* The indexes (from 1) a strategy may select in a list of n instances, given the
\* cursor c of the key: round-robin selects index c mod n, the random strategies any.
choose_one_instance_select(strategy, n, c) ==
    IF strategy = "round_robin" THEN {(c % n) + 1}
    ELSE IF strategy \in {"random", "weight_random"} THEN 1..n
    ELSE {}

\* The cursor is read and incremented in one piece, with no await in between.
choose_one_instance_cursor(cursors, key, strategy) ==
    IF strategy = "round_robin" THEN Put(cursors, key, Get(cursors, key, 0) + 1) ELSE cursors

RunAfter(run, key, list, pick) ==
    IF run.key = key /\ run.list = list
    THEN [run EXCEPT !.picks = IF Len(@) < Len(list) THEN Append(@, pick)
                                ELSE Append(Tail(@), pick)]
    ELSE [key |-> key, list |-> list, picks |-> <<pick>>]

\* The call after its await: a failed query is a ServiceDiscoveryError, an empty
\* list gives None whatever the strategy, an unknown strategy is an invalid
\* argument, and otherwise the strategy selects one instance.
choose_one_instance_return(t) ==
    LET a == facade_choose_one_instance_args(call[t])
        key == CursorKey(a)
        list == get_service_instances_filter(bres[t].value, a.healthy_only)
        c == Get(cursor, key, 0)
        counted == call[t].strategy = "round_robin"
        done_(o) == Event(o, facade_choose_one_instance(o), bres[t]) IN
    /\ Resumed(t, "choose_one_instance")
    /\ IF bres[t].kind = "raise"
       THEN /\ ev' = done_(Raised(call[t], "ServiceDiscoveryError"))
            /\ UNCHANGED <<cursor, rr_count, observed, rr_run>>
       ELSE IF Len(list) = 0
       THEN /\ ev' = done_(Returned(call[t], None))
            /\ UNCHANGED <<cursor, rr_count, observed, rr_run>>
       ELSE IF choose_one_instance_select(a.strategy, Len(list), c) = {}
       THEN /\ ev' = done_(Raised(call[t], "InvalidArgument"))
            /\ UNCHANGED <<cursor, rr_count, observed, rr_run>>
       ELSE /\ a.strategy = "round_robin" => c < MaxCursor
            /\ \E i \in choose_one_instance_select(a.strategy, Len(list), c) :
                /\ ev' = done_(Returned(call[t], list[i]))
                /\ rr_run' = IF counted THEN RunAfter(rr_run, key, list, list[i]) ELSE rr_run
            /\ cursor' = choose_one_instance_cursor(cursor, key, a.strategy)
            /\ rr_count' = IF counted THEN Put(rr_count, key, Get(rr_count, key, 0) + 1)
                            ELSE rr_count
            /\ observed' = IF a.strategy = "round_robin"
                            THEN Put(observed, key, Append(Get(observed, key, <<>>), c))
                            ELSE observed
    /\ UNCHANGED <<config_state, lifecycle, registry_side, topology>>

\* The service's instances change: one joins, the last one leaves, or one changes
\* health.
TopologyChange(list) ==
    /\ topology' = list
    /\ rr_run' = NoRun
    /\ ev' = NoEvent
    /\ UNCHANGED <<config_side, lifecycle, registry_side, cursor, rr_count, observed>>

InstanceJoins(healthy) ==
    /\ Len(topology) < MaxInstances
    /\ TopologyChange(Append(topology, ServiceInstance(Len(topology) + 1, healthy)))

InstanceLeaves ==
    /\ Len(topology) > 0
    /\ TopologyChange(SubSeq(topology, 1, Len(topology) - 1))

HealthChanges(i) ==
    /\ i \in 1..Len(topology)
    /\ TopologyChange([topology EXCEPT ![i].healthy = IF @ = True THEN False ELSE True])

\* ------------------------------------------- bootstrap configuration

\* The configuration keys the application reads, all without a '.'.
ConfKeys == {"host", "port", "debug"}

\* str.upper()
Upper(key) ==
    CASE key = "host" -> "HOST"
      [] key = "port" -> "PORT"
      [] key = "debug" -> "DEBUG"
      [] OTHER -> key

PyNone == PyValue("NoneType", "None")
PyStr(text) == PyValue("str", text)
PyInt(text) == PyValue("int", text)

\* What the file at CONFIG_FILE may be; its mappings are flat, of strings and integers.
Broken == ConfFile("broken", EmptyDict)
EmptyDocument == ConfFile("empty", EmptyDict)
Documents ==
    {EmptyDict,
     [host |-> PyStr("h1")],
     [host |-> PyStr("${HOST:h0}"), port |-> PyInt("80")]}
ConfFiles == {NoFile, Broken, EmptyDocument} \cup {ConfFile("mapping", d) : d \in Documents}

\* What os.environ may hold.
Environs ==
    {EmptyDict,
     [HOST |-> "h2"],
     [PORT |-> "81"],
     [PORT |-> "x"],
     [host |-> "h3", DEBUG |-> "1"],
     [HOST |-> "h2", PORT |-> "81", DEBUG |-> "1"]}

\* os.getenv(var_name, default)
get_var(var_name, default) == IF var_name \in DOMAIN environ THEN environ[var_name] ELSE default

\* ENV_VAR_PATTERN on a string: the variable and the default of its ${VAR:default}
\* reference (`match.group(2) or ''`), or nothing when it holds no reference.
EnvVarPattern(text) == IF text = "${HOST:h0}" THEN <<"HOST", "h0">> ELSE <<>>

\* substitute_env_vars on a value of the document: a string that is a reference
\* becomes the variable's value or the reference's default.
substitute_env_vars(value) ==
    IF value.type = "str" /\ EnvVarPattern(value.repr) # <<>>
    THEN PyStr(get_var(EnvVarPattern(value.repr)[1], EnvVarPattern(value.repr)[2]))
    ELSE value

\* int(env_value) succeeds
IsIntText(text) == text \in {"81", "1"}

\* merge_config: a key of the document takes the value of the environment variable
\* named as the key in upper case, when it is set, converted to the type of the
\* document's value (the document's value stays when int() fails).
merge_config(config_dict) ==
    [key \in DOMAIN config_dict |->
        LET value == config_dict[key]
            env_value == get_var(Upper(key), None) IN
        IF env_value = None THEN value
        ELSE IF value.type = "int"
             THEN (IF IsIntText(env_value) THEN PyInt(env_value) ELSE value)
        ELSE PyStr(env_value)]

\* read_yaml_file, then merge_config: the dict of the AppConfig that load_config
\* returns (the empty dict when the file does not exist or is empty).
load_config_dict(file) ==
    IF file.kind \in {"missing", "empty"} THEN EmptyDict
    ELSE merge_config([key \in DOMAIN file.document |-> substitute_env_vars(file.document[key])])

BootstrapCall(op, key, default) == [op |-> op, key |-> key, default |-> default]

load_config ==
    LET c == BootstrapCall("load_config", None, PyNone) IN
    /\ ~app_config.loaded
    /\ IF conf_file.kind = "broken"
       THEN /\ ev' = Event(Raised(c, "RuntimeError"), NoFacade, NoRes)
            /\ UNCHANGED app_config
       ELSE /\ ev' = Event(Returned(c, "<AppConfig>"), NoFacade, NoRes)
            /\ app_config' = AppConfig(load_config_dict(conf_file))
    /\ UNCHANGED <<_instance, manager, created, failed, dependencies, environ, conf_file,
                   components>>

\* AppConfig.get for a key without '.': `value = value[k]`, and the default on KeyError.
AppConfig_get_value(config, key, default) ==
    IF key \in DOMAIN config THEN config[key] ELSE default

AppConfig_get(key, default) ==
    LET c == BootstrapCall("AppConfig.get", key, default) IN
    /\ app_config.loaded
    /\ ev' = Event(Returned(c, AppConfig_get_value(app_config._config, key, default)),
                   NoFacade, NoRes)
    /\ UNCHANGED <<lifecycle, components>>

\* --------------------------------------------------------- specifications

TaskStep(t) ==
    \/ \E d \in DataIds, g \in Groups, ns \in Namespaces :
        get_config_call(t, d, g, ns)
    \/ get_config_backend(t)
    \/ get_config_return(t)
    \/ \E d \in DataIds, g \in Groups, v \in Contents, ns \in Namespaces :
        set_config_call(t, d, g, v, ns)
    \/ set_config_backend(t)
    \/ set_config_return(t)
    \/ \E d \in DataIds, g \in Groups, ns \in Namespaces : delete_config_call(t, d, g, ns)
    \/ delete_config_backend(t)
    \/ delete_config_return(t)
    \/ \E d \in DataIds, g \in Groups, ns \in Namespaces, cb \in Callbacks :
        add_listener_call(t, d, g, ns, cb)
    \/ add_listener_backend(t)
    \/ add_listener_return(t)
    \/ \E d \in DataIds, g \in Groups, ns \in Namespaces : remove_listener_call(t, d, g, ns)
    \/ remove_listener_backend(t)
    \/ remove_listener_return(t)
    \/ get_cache(t)
    \/ clear_cache(t)

BackendStep ==
    \/ \E param \in BackendKeys, v \in Contents \cup {None} : RemoteChange(param, v)
    \/ \E param \in BackendKeys : Notify(param)

Next == (\E t \in SeqTasks : TaskStep(t)) \/ BackendStep

Spec == Init /\ [][Next]_vars

\* Concurrent callers of get/set/delete on one entry, with no remote change.
ConcNamespaces == {"ns1"}

ConcStep(t) ==
    \/ \E d \in DataIds, g \in Groups, ns \in ConcNamespaces : get_config_call(t, d, g, ns)
    \/ get_config_backend(t)
    \/ get_config_return(t)
    \/ \E d \in DataIds, g \in Groups, v \in Contents, ns \in ConcNamespaces :
        set_config_call(t, d, g, v, ns)
    \/ set_config_backend(t)
    \/ set_config_return(t)
    \/ \E d \in DataIds, g \in Groups, ns \in ConcNamespaces : delete_config_call(t, d, g, ns)
    \/ delete_config_backend(t)
    \/ delete_config_return(t)

NextConc == \E t \in Tasks : ConcStep(t)

SpecConc == Init /\ [][NextConc]_vars

\* get_config_dict on entries whose text other clients change.
DictStep(t) ==
    \/ \E d \in DataIds, g \in Groups, ns \in ConcNamespaces : get_config_dict_call(t, d, g, ns)
    \/ get_config_dict_backend(t)
    \/ get_config_dict_return(t)

NextDict ==
    \/ \E t \in SeqTasks : DictStep(t)
    \/ \E param \in BackendKeys, v \in DictContents \cup {None} : RemoteChange(param, v)

SpecDict == Init /\ [][NextDict]_vars

\* Config calls whose namespace and group may hold the ':' of the cache key: the
\* (namespace, group, dataId) triples the caller uses.
KeyTriples == {<<"a", "g", "d">>, <<"a", "b:g", "d">>, <<"a:b", "g", "d">>}

KeyBackendKeys == {ConfigParam(tr[3], tr[2]) : tr \in KeyTriples}

InitKey ==
    /\ InitReady /\ InitRegistry /\ InitDiscovery
    /\ store = [k \in KeyBackendKeys |-> None]
    /\ backend_listeners = [k \in KeyBackendKeys |-> {}]
    /\ pending = [k \in KeyBackendKeys |-> FALSE]
    /\ config_cache = EmptyDict
    /\ config_listeners = EmptyDict
    /\ pc = [t \in Tasks |-> "idle"]
    /\ call = [t \in Tasks |-> NoCall]
    /\ bres = [t \in Tasks |-> NoRes]
    /\ ev = NoEvent
    /\ roundtrip = NoTrip

KeyStep(t) ==
    \/ \E tr \in KeyTriples : get_config_call(t, tr[3], tr[2], tr[1])
    \/ get_config_backend(t)
    \/ get_config_return(t)
    \/ \E tr \in KeyTriples : set_config_call(t, tr[3], tr[2], "v1", tr[1])
    \/ set_config_backend(t)
    \/ set_config_return(t)
    \/ \E tr \in KeyTriples : delete_config_call(t, tr[3], tr[2], tr[1])
    \/ delete_config_backend(t)
    \/ delete_config_return(t)
    \/ \E tr \in KeyTriples : add_listener_call(t, tr[3], tr[2], tr[1], 1)
    \/ add_listener_backend(t)
    \/ add_listener_return(t)

NextKey == \E t \in SeqTasks : KeyStep(t)

SpecKey == InitKey /\ [][NextKey]_vars

\* Registration and deregistration of this process's instances, one call at a time.
RegistryStep(t) ==
    \/ \E sn \in ServiceNames, g \in GroupNames, ip \in Ips, port \in Ports, cl \in ClusterNames :
        register_service_call(t, sn, g, ip, port, cl, DefaultEntry.weight,
                              DefaultEntry.metadata, None)
    \/ register_service_backend(t)
    \/ register_service_return(t)
    \/ \E sn \in ServiceNames, g \in GroupNames, ip \in Ips, port \in Ports, cl \in ClusterNames :
        deregister_service_call(t, sn, g, ip, port, cl)
    \/ \E sn \in ServiceNames, g \in GroupNames, cl \in ClusterNames :
        deregister_service_call(t, sn, g, None, NoPort, cl)
    \/ deregister_service_backend(t)
    \/ deregister_service_return(t)

NextRegistry == \E t \in SeqTasks : RegistryStep(t)

SpecRegistry == Init /\ [][NextRegistry]_vars

\* Registration with a FastAPI application, and the application's startup and
\* shutdown events, one call at a time.
Weights == {"1.0", "2.0"}
Metadatas == {"{}", "{'v': '1'}"}
HookIps == {"ip1"}

HooksStep(t) ==
    \/ \E sn \in ServiceNames, g \in GroupNames, ip \in HookIps, port \in Ports,
          cl \in ClusterNames, w \in Weights, md \in Metadatas, app \in {None, "app"} :
        register_service_call(t, sn, g, ip, port, cl, w, md, app)
    \/ register_service_backend(t)
    \/ register_service_return(t)
    \/ \E n \in 1..MaxHooks : on_startup_call(t, n)
    \/ \E n \in 1..MaxHooks : on_shutdown_call(t, n)
    \/ deregister_service_backend(t)
    \/ deregister_service_return(t)

NextHooks == \E t \in SeqTasks : HooksStep(t)

SpecHooks == Init /\ [][NextHooks]_vars

\* Instance selection, one call at a time, while the service's instances change.
DiscoveryStep(t) ==
    \/ \E sn \in ServiceNames, g \in GroupNames, h \in {True, False}, cl \in ClusterSets,
          st \in Strategies : choose_one_instance_call(t, sn, g, h, cl, st)
    \/ choose_one_instance_backend(t)
    \/ choose_one_instance_return(t)

NextDiscovery ==
    \/ \E t \in SeqTasks : DiscoveryStep(t)
    \/ \E healthy \in {True, False} : InstanceJoins(healthy)
    \/ InstanceLeaves
    \/ \E i \in 1..MaxInstances : HealthChanges(i)

SpecDiscovery == Init /\ [][NextDiscovery]_vars

\* Instance lists and selection with every known strategy, one call at a time, while
\* the service's instances change.
InstancesStep(t) ==
    \/ \E sn \in ServiceNames, g \in GroupNames, h \in {True, False} :
        get_service_instances_call(t, sn, g, h, None)
    \/ get_service_instances_backend(t)
    \/ get_service_instances_return(t)
    \/ \E sn \in ServiceNames, g \in GroupNames, h \in {True, False}, st \in KnownStrategies :
        choose_one_instance_call(t, sn, g, h, None, st)
    \/ choose_one_instance_backend(t)
    \/ choose_one_instance_return(t)

NextInstances ==
    \/ \E t \in SeqTasks : InstancesStep(t)
    \/ \E healthy \in {True, False} : InstanceJoins(healthy)
    \/ InstanceLeaves
    \/ \E i \in 1..MaxInstances : HealthChanges(i)

SpecInstances == Init /\ [][NextInstances]_vars

\* Concurrent round-robin callers sharing one key, on any instance list.
DiscoveryConcStep(t) ==
    \/ \E sn \in ServiceNames, g \in GroupNames :
        choose_one_instance_call(t, sn, g, False, None, "round_robin")
    \/ choose_one_instance_backend(t)
    \/ choose_one_instance_return(t)

InitDiscoveryConc ==
    /\ InitReady /\ InitConfig /\ InitRegistry
    /\ topology \in Topologies
    /\ cursor = EmptyDict
    /\ rr_count = EmptyDict
    /\ observed = EmptyDict
    /\ rr_run = NoRun

NextDiscoveryConc == \E t \in Tasks : DiscoveryConcStep(t)

SpecDiscoveryConc == InitDiscoveryConc /\ [][NextDiscoveryConc]_vars

\* The managers of a process from its start: construction, the two inits, the
\* facade methods and the static accessors.
InitFresh ==
    /\ _instance = 0
    /\ manager = <<>>
    /\ created = 0
    /\ failed = <<>>
    /\ InitDependencies

InitManager ==
    /\ InitFresh
    /\ InitBootstrap
    /\ InitConfig
    /\ InitRegistry
    /\ InitDiscovery

NextManager ==
    \/ NacosClientManager_init
    \/ \E m \in 1..NumManagers : init_registry_discovery_service(m)
    \/ \E m \in 1..NumManagers : init_config_service(m)
    \/ \E m \in 1..NumManagers : NacosClientManager_register_service(m)
    \/ \E m \in 1..NumManagers : NacosClientManager_deregister_service(m)
    \/ \E m \in 1..NumManagers : NacosClientManager_get_service_instances(m)
    \/ \E m \in 1..NumManagers : NacosClientManager_choose_one_instance(m)
    \/ \E m \in 1..NumManagers : NacosClientManager_get_config(m)
    \/ \E m \in 1..NumManagers : NacosClientManager_set_config(m)
    \/ \E m \in 1..NumManagers : NacosClientManager_add_config_listener(m)
    \/ get_instance
    \/ get_registry_instance

SpecManager == InitManager /\ [][NextManager]_vars

\* The dependency-injection functions of a process from its start.
NextDependencies ==
    \/ init_nacos_registry_discovery_client_call
    \/ \E m \in 1..NumManagers : init_nacos_registry_discovery_client_return(m)
    \/ \E m \in 1..NumManagers : init_config_service(m)
    \/ get_nacos_client
    \/ get_service_registry
    \/ get_service_discovery
    \/ get_config_manager

SpecDependencies == InitManager /\ [][NextDependencies]_vars

\* The bootstrap configuration of a process, for each file and environment.
GetDefaults == {PyNone, PyStr("dflt")}

InitAppConfig ==
    /\ InitFresh /\ InitConfig /\ InitRegistry /\ InitDiscovery
    /\ environ \in Environs
    /\ conf_file \in ConfFiles
    /\ app_config = NotLoaded

NextAppConfig ==
    \/ load_config
    \/ \E key \in ConfKeys, default \in GetDefaults : AppConfig_get(key, default)

SpecAppConfig == InitAppConfig /\ [][NextAppConfig]_vars

\* ----------------------------------------------------------------- claims

Ends(t) == pc[t] = "resumed" /\ pc'[t] = "idle"

EndedWith(op, kind) == ev.kind = kind /\ ev.call.op = op

\* C1: when get_config returns, or set_config returns True, the cache entry under
\* namespace:group:dataId is the content returned by get_config (None and "" included)
\* respectively the content handed to set_config.
C1_CacheHoldsContent ==
    /\ EndedWith("get_config", "return") =>
        /\ KeyOf(ev.call) \in DOMAIN config_cache
        /\ config_cache[KeyOf(ev.call)] = ev.value
    /\ (EndedWith("set_config", "return") /\ ev.value = True) =>
        /\ KeyOf(ev.call) \in DOMAIN config_cache
        /\ config_cache[KeyOf(ev.call)] = ev.call.content

C1_Witness ==
    /\ EndedWith("get_config", "return")
    /\ ev.value = None
    /\ config_cache[KeyOf(ev.call)] = None

\* C2: a set_config(d, g, v, ns) that returned True, followed by get_config(d, g, ns)
\* with no other operation and no remote change on that entry in between, makes the
\* get return v (from the ConfigManager and through the facade).
C2_RoundTrip ==
    roundtrip.stage = "read" =>
        /\ EndedWith("get_config", "return")
        /\ ev.value = roundtrip.request.content
        /\ ev.facade.kind = "return"
        /\ ev.facade.value = roundtrip.request.content

C2_Witness ==
    /\ roundtrip.stage = "read"
    /\ roundtrip.request.content = "v1"
    /\ ev.value = "v1"

\* C3: when publish_config / remove_config answers False, set_config / delete_config
\* returns False without raising, and no step of that call changes the cache.
C3_FalseLeavesCache ==
    [][\A t \in Tasks :
        LET c == IF pc[t] = "idle" THEN call'[t] ELSE call[t]
            mine == pc'[t] # pc[t] /\ c.op \in {"set_config", "delete_config"}
        IN  /\ (mine /\ ~(Ends(t) /\ bres[t] = SessionAnswer(True))) =>
                config_cache' = config_cache
            /\ (mine /\ Ends(t) /\ bres[t] = SessionAnswer(False)) =>
                /\ ev'.kind = "return"
                /\ ev'.value = False
      ]_vars

C3_Witness ==
    /\ EndedWith("set_config", "return")
    /\ ev.value = False
    /\ DOMAIN config_cache # {}

\* C4: when remove_config answers True, delete_config returns True (it does not fail
\* when the key was never cached) and the cache has no entry under the key.
C4_DeleteEvicts ==
    (ev.kind \in {"return", "raise"} /\ ev.call.op = "delete_config"
            /\ ev.answer = SessionAnswer(True)) =>
        /\ ev.kind = "return"
        /\ ev.value = True
        /\ KeyOf(ev.call) \notin DOMAIN config_cache

C4_Witness ==
    /\ EndedWith("delete_config", "return")
    /\ ev.value = True
    /\ KeyOf(ev.call) \notin DOMAIN config_cache
    /\ DOMAIN config_cache # {}

\* C5: with no call in flight, every callback a change notification invokes for an
\* entry is the callback of a listener now recorded for that entry: after
\* add_listener(c1) and add_listener(c2) on one key the notification invokes c2 and
\* not c1, the replaced listener being no longer active.
C5_ListenerReplacement ==
    (ev.kind = "notify" /\ \A t \in Tasks : pc[t] = "idle") =>
        \A cb \in ev.invoked :
            \E key \in DOMAIN config_listeners :
                /\ config_listeners[key].callback = cb
                /\ ParamOf(config_listeners[key]) = ev.param

\* C6: once every get/set/delete call has returned, with no remote change, a cached
\* entry holds the backend's current content (and there is none after an effective
\* delete).
C6_CacheCoherentWhenQuiet ==
    (\A t \in Tasks : pc[t] = "idle") =>
        \A d \in DataIds, g \in Groups, ns \in ConcNamespaces :
            CacheKey(ns, g, d) \in DOMAIN config_cache =>
                config_cache[CacheKey(ns, g, d)] = store[ConfigParam(d, g)]

\* C7: remove_listener on a key with no recorded listener returns False at once,
\* with no backend call and no state change; on a key with a recorded listener,
\* when the backend unregistration succeeds, the listener's callback is no longer
\* registered at the backend, the record is gone and it returns True.
C7_RemoveListener ==
    [][/\ (pc' = pc /\ ev' # ev /\ ev'.kind \in {"return", "raise"}
                /\ ev'.call.op = "remove_listener") =>
            /\ ev'.kind = "return"
            /\ ev'.value = False
            /\ KeyOf(ev'.call) \notin DOMAIN config_listeners
            /\ UNCHANGED <<backend, config_cache, config_listeners, pc, call, bres>>
       /\ \A t \in Tasks :
        /\ (pc[t] = "idle" /\ pc'[t] = "awaiting" /\ call'[t].op = "remove_listener") =>
            KeyOf(call'[t]) \in DOMAIN config_listeners
        /\ (Ends(t) /\ call[t].op = "remove_listener" /\ bres[t].kind = "value") =>
            /\ ev'.kind = "return"
            /\ ev'.value = True
            /\ KeyOf(call[t]) \notin DOMAIN config_listeners'
            /\ call[t].listener.callback \notin backend_listeners'[ParamOf(call[t])]
      ]_vars

C7_Witness ==
    /\ EndedWith("remove_listener", "return")
    /\ ev.value = True
    /\ KeyOf(ev.call) \notin DOMAIN config_listeners
    /\ DOMAIN config_listeners # {}

\* C8: add_listener records the listener under namespace:group:dataId and, when the
\* backend registration succeeds, the callback is registered at the backend and it
\* returns True; when the backend registration fails it raises ConfigListenerError.
C8_AddListener ==
    /\ \A t \in Tasks :
        (pc[t] # "idle" /\ call[t].op = "add_listener") =>
            /\ KeyOf(call[t]) \in DOMAIN config_listeners
            /\ config_listeners[KeyOf(call[t])] = call[t].listener
    /\ (ev.kind \in {"return", "raise"} /\ ev.call.op = "add_listener") =>
        /\ ev.answer.kind = "value" =>
            /\ ev.kind = "return"
            /\ ev.value = True
            /\ ev.call.listener.callback \in backend_listeners[ParamOf(ev.call)]
            /\ config_listeners[KeyOf(ev.call)] = ev.call.listener
        /\ ev.answer.kind = "raise" =>
            /\ ev.kind = "raise"
            /\ ev.error = "ConfigListenerError"

C8_Witness ==
    /\ EndedWith("add_listener", "return")
    /\ ev.value = True
    /\ config_listeners[KeyOf(ev.call)] = ev.call.listener
    /\ ev.call.listener.callback \in backend_listeners[ParamOf(ev.call)]

\* The typed error of each method's `except Exception` clause.
ErrorOf(op) ==
    IF op \in {"get_config", "set_config", "delete_config"} THEN "ConfigError"
    ELSE "ConfigListenerError"

\* C9: when the backend call raises, get_config, set_config and delete_config raise
\* ConfigError and add_listener and remove_listener raise ConfigListenerError; the
\* facade methods hand their caller that same error.
C9_BackendErrorsRaised ==
    (ev.kind \in {"return", "raise"} /\ ev.answer.kind = "raise") =>
        /\ ev.kind = "raise"
        /\ ev.error = ErrorOf(ev.call.op)
        /\ ev.facade # NoFacade => ev.facade = Raised(ev.call, ErrorOf(ev.call.op))

C9_Witness ==
    /\ EndedWith("set_config", "raise")
    /\ ev.answer.kind = "raise"
    /\ ev.error = "ConfigError"
    /\ ev.facade.kind = "raise"

\* C10: clear_cache empties the cache and returns True, get_cache hands out the cache;
\* neither changes the listener registry or the backend, and get_cache changes
\* nothing.
C10_ClearCacheFrame ==
    [][/\ (ev' # ev /\ ev'.kind = "return" /\ ev'.call.op = "clear_cache") =>
            /\ DOMAIN config_cache' = {}
            /\ ev'.value = True
            /\ UNCHANGED <<config_listeners, backend, pc, call, bres>>
       /\ (ev' # ev /\ ev'.kind = "return" /\ ev'.call.op = "get_cache") =>
            /\ ev'.mapping = config_cache
            /\ UNCHANGED <<config_cache, config_listeners, backend, pc, call, bres>>
      ]_vars

C10_Witness ==
    /\ EndedWith("clear_cache", "return")
    /\ DOMAIN config_listeners # {}
    /\ \E k \in BackendKeys : store[k] # None /\ backend_listeners[k] # {}

\* ------------------------------------------------ claims on the manager

InitOps == {"init_registry_discovery_service", "init_config_service"}

FacadeOps == {"register_service", "deregister_service", "get_service_instances",
              "choose_one_instance", "get_config", "set_config", "add_config_listener"}

\* The attribute a facade method reads to reach its component.
NeededAttr(op) ==
    IF op \in {"register_service", "deregister_service"} THEN "_registry"
    ELSE IF op \in {"get_service_instances", "choose_one_instance"} THEN "_discovery"
    ELSE "config"

\* A session attribute and the components built on it are set together, and the
\* components are built on the session the manager holds.
Whole(self) ==
    /\ HasAttr(self, "naming_service") <=> HasAttr(self, "_registry")
    /\ HasAttr(self, "naming_service") <=> HasAttr(self, "_discovery")
    /\ HasAttr(self, "config_service") <=> HasAttr(self, "config")
    /\ HasAttr(self, "naming_service") =>
           /\ self["_registry"] = ServiceRegistry(self["naming_service"])
           /\ self["_discovery"] = ServiceDiscovery(self["naming_service"])
    /\ HasAttr(self, "config_service") => self["config"] = ConfigManager(self["config_service"])

InitFailed(e) == e.kind \in {"return", "raise"} /\ e.call.op \in InitOps /\ e.answer.kind = "raise"

\* C11: when the session cannot be created, init_registry_discovery_service and
\* init_config_service raise NacosConnectionError and leave every attribute of the
\* manager as it was (unset stays unset); no manager ever holds a session without
\* the components built on it.
C11_FailedInitLeavesUnset ==
    [][/\ InitFailed(ev') => /\ ev'.kind = "raise"
                             /\ ev'.error = "NacosConnectionError"
                             /\ manager' = manager
       /\ \A m \in DOMAIN manager' : Whole(manager'[m])]_vars

C11_Witness ==
    /\ InitFailed(ev)
    /\ ev.call.op = "init_registry_discovery_service"
    /\ ~HasAttr(manager[ev.call.manager], "naming_service")
    /\ ~HasAttr(manager[ev.call.manager], "_registry")

FacadeEvent(e) == e.kind \in {"raise", "delegated"} /\ e.call.op \in FacadeOps

\* C12: a facade method called on a manager whose needed session does not exist
\* fails with the not-initialized error, the same on every such call.
C12_NotInitializedError ==
    (FacadeEvent(ev) /\ ~HasAttr(manager[ev.call.manager], NeededAttr(ev.call.op))) =>
        /\ ev.kind = "raise"
        /\ ev.error = "NotInitializedError"

NamingAttrs == {"naming_service", "_registry", "_discovery"}
ConfigAttrs == {"config_service", "config"}

\* The attributes of one subsystem: which are set, and to what.
Part(self, names) == [n \in names \cap DOMAIN self |-> self[n]]

\* C13: an init of one subsystem, successful or failed, leaves the attributes of
\* the other subsystem as they were, and a facade method reaches its component
\* whenever that component's own init has succeeded, whatever happened to the other.
C13_IndependentInit ==
    [][/\ (ev'.kind \in {"return", "raise"} /\ ev'.call.op = "init_registry_discovery_service") =>
              \A m \in DOMAIN manager : Part(manager'[m], ConfigAttrs) = Part(manager[m], ConfigAttrs)
       /\ (ev'.kind \in {"return", "raise"} /\ ev'.call.op = "init_config_service") =>
              \A m \in DOMAIN manager : Part(manager'[m], NamingAttrs) = Part(manager[m], NamingAttrs)
       /\ (FacadeEvent(ev') /\ HasAttr(manager[ev'.call.manager], NeededAttr(ev'.call.op))) =>
              /\ ev'.kind = "delegated"
              /\ ev'.value = manager[ev'.call.manager][NeededAttr(ev'.call.op)]]_vars

C13_Witness ==
    /\ ev.kind = "delegated"
    /\ ev.call.op = "get_config"
    /\ failed = <<ev.call.manager, "init_registry_discovery_service">>
    /\ ~HasAttr(manager[ev.call.manager], "naming_service")

\* C14: get_instance returns the most recently constructed manager, and both static
\* accessors fail with the not-initialized error when none was ever constructed.
C14_StaticAccessor ==
    (ev.kind \in {"return", "raise"} /\ ev.call.op \in {"get_instance", "get_registry_instance"}) =>
        IF Len(manager) = 0
        THEN ev.kind = "raise" /\ ev.error = "NotInitializedError"
        ELSE ev.call.op = "get_instance" => (ev.kind = "return" /\ ev.value = Len(manager))

\* -------------------------------------------------- claims on get_config_dict

DictEvent(e) == e.kind \in {"return", "raise"} /\ e.call.op = "get_config_dict"

\* C15: get_config_dict yields a mapping or ConfigError: the empty mapping for absent
\* or empty content, else the JSON value, else the YAML value ("a: 1" gives {a: 1}),
\* and ConfigError when both parsers fail.
C15_MappingOrConfigError ==
    (DictEvent(ev) /\ ev.answer.kind = "value") =>
        LET content == ev.answer.value IN
        /\ ev.kind = "return" => ev.value.type = "dict"
        /\ ev.kind = "raise" => ev.error = "ConfigError"
        /\ Falsy(content) => ev.kind = "return" /\ ev.value = PyValue("dict", "{}")
        /\ content = "a: 1" => ev.kind = "return" /\ ev.value = PyValue("dict", "{'a': 1}")
        /\ (~Falsy(content) /\ json_loads(content).kind = "raise"
               /\ yaml_safe_load(content).kind = "raise") => ev.kind = "raise"

\* ---------------------------------------------------- claims on notifications

CacheWriters == {"get_config", "set_config", "delete_config", "clear_cache"}

\* C16: a change pushed by the backend hands the callbacks the entry's new content and
\* changes neither the cache nor the listener registry, also while a foreground call
\* is in flight; the cache changes only when get_config, set_config, delete_config
\* (or clear_cache) ends.
C16_NotifyFrame ==
    [][/\ ev'.kind = "notify" =>
              /\ ev'.content = store[ev'.param]
              /\ ev'.invoked = backend_listeners[ev'.param]
              /\ config_cache' = config_cache
              /\ config_listeners' = config_listeners
       /\ config_cache' # config_cache =>
              (ev'.kind = "return" /\ ev'.call.op \in CacheWriters)]_vars

C16_Witness ==
    /\ ev.kind = "notify"
    /\ ev.invoked # {}
    /\ \E t \in Tasks : pc[t] = "awaiting" /\ call[t].op \in {"get_config", "set_config"}
    /\ \E k \in DOMAIN config_listeners :
        /\ ParamOf(config_listeners[k]) = ev.param
        /\ k \in DOMAIN config_cache
        /\ config_cache[k] # ev.content

\* ------------------------------------------------------ claims on the registry

DeregisterEvent(e) == e.kind \in {"return", "raise"} /\ e.call.op = "deregister_service"

SameArguments(c1, c2) == InstanceOf(c1) = InstanceOf(c2)

\* C19: when a deregister_service call returned True, the next call, a
\* deregister_service with the same arguments (ip and port given, or both omitted),
\* returns a boolean and does not raise, unless the backend itself fails.
C19_DeregisterTwice ==
    (/\ Len(done) = 2
     /\ ev = done[2]
     /\ DeregisterEvent(done[1])
     /\ done[1].kind = "return"
     /\ done[1].value = True
     /\ DeregisterEvent(done[2])
     /\ SameArguments(done[1].call, done[2].call)
     /\ done[2].answer.kind # "raise") =>
        /\ ev.kind = "return"
        /\ ev.value \in {True, False}
        /\ ev.facade = Returned(ev.call, ev.value)

\* The ownership records under the key of a call are none, or the last is `i`.
MostRecent(records, c, i) ==
    \E n \in 1..Len(records) :
        /\ records[n] = i
        /\ OwnerKey(i) = OwnerKey(InstanceOf(c))
        /\ \A k \in (n + 1)..Len(records) : OwnerKey(records[k]) # OwnerKey(i)

NoRecord(records, c) ==
    \A n \in 1..Len(records) : OwnerKey(records[n]) # OwnerKey(InstanceOf(c))

\* C20: a successful register_service makes its instance the most recent record of
\* its key; deregister_service with ip/port omitted deregisters at the backend the
\* most recent record of the key, and with no record it raises
\* ServiceRegistrationError, at the facade too, without asking the backend.
C20_OmittedAddress ==
    [][/\ (ev'.kind = "return" /\ ev'.call.op = "register_service") =>
              MostRecent(owned', ev'.call, InstanceOf(ev'.call))
       /\ \A t \in Tasks :
              (pc[t] = "idle" /\ pc'[t] = "awaiting" /\ call'[t].op = "deregister_service"
                 /\ deregister_service_omits(call'[t])) =>
                  MostRecent(owned, call'[t], call'[t].resolved)
       /\ \A t \in Tasks :
              (Awaiting(t, "deregister_service") /\ registered' # registered) =>
                  registered' = registered \ {call[t].resolved}
       /\ (DeregisterEvent(ev') /\ deregister_service_omits(ev'.call)
              /\ NoRecord(owned, ev'.call)) =>
              /\ ev'.kind = "raise"
              /\ ev'.error = "ServiceRegistrationError"
              /\ ev'.facade = Raised(ev'.call, "ServiceRegistrationError")
              /\ ev'.answer = NoRes
              /\ UNCHANGED <<pc, registered, owned>>]_vars

C20_Witness ==
    /\ DeregisterEvent(ev)
    /\ deregister_service_omits(ev.call)
    /\ ev.kind = "return"
    /\ ev.value = True
    /\ ev.call.resolved.ip = "ip2"
    /\ Len(owned) = 1
    /\ owned[1].ip = "ip1"
    /\ registered = {owned[1]}

\* ----------------------------------------------------- claims on the discovery

CursorKeys == {<<sn, g, cl>> : sn \in ServiceNames, g \in GroupNames, cl \in ClusterSets}

\* A round-robin call, as its caller made it, that returned an instance.
RoundRobinPick(e) ==
    /\ e.kind = "return"
    /\ e.call.op = "choose_one_instance"
    /\ e.call.strategy = "round_robin"
    /\ e.answer.kind = "value"
    /\ Len(get_service_instances_filter(e.answer.value, e.call.healthy_only)) > 0

\* `picks` goes through `list` in its order, cyclically, from some instance on.
Cyclic(list, picks) ==
    \E k \in 0..(Len(list) - 1) :
        \A i \in 1..Len(picks) : picks[i] = list[((k + i - 1) % Len(list)) + 1]

\* C17: the cursor of a key starts at 0 and advances by one on every round-robin call
\* that selects; the call selects the instance at index (cursor mod n) of its list of
\* n instances; and n such calls in a row on one key and one list visit every
\* instance of the list once, in the list's cyclic order.
C17_RoundRobin ==
    /\ \A key \in CursorKeys : Get(cursor, key, 0) = Get(rr_count, key, 0)
    /\ RoundRobinPick(ev) =>
           LET list == get_service_instances_filter(ev.answer.value, ev.call.healthy_only)
               c == Get(cursor, CursorKey(ev.call), 0) - 1 IN
           /\ Get(cursor, CursorKey(ev.call), 0) >= 1
           /\ ev.value = list[(c % Len(list)) + 1]
           /\ ev.facade = Returned(ev.call, ev.value)
    /\ Len(rr_run.picks) > 0 => Cyclic(rr_run.list, rr_run.picks)
    /\ Len(rr_run.picks) = Len(rr_run.list) =>
           {rr_run.picks[i] : i \in 1..Len(rr_run.picks)} =
               {rr_run.list[i] : i \in 1..Len(rr_run.list)}

C17_Witness ==
    /\ RoundRobinPick(ev)
    /\ Len(rr_run.list) = 2
    /\ Len(rr_run.picks) = 2
    /\ rr_run.picks = <<rr_run.list[2], rr_run.list[1]>>
    /\ Get(cursor, CursorKey(ev.call), 0) = 3
    /\ \E key \in CursorKeys : Get(cursor, key, 0) = 1

ConfigOps == {"get_config", "set_config", "delete_config", "add_listener", "remove_listener"}

\* The listener registry as it was when the call was made: add_listener writes its
\* record before its await, and no other step of a caller that awaits each call
\* touches the registry while the call is in flight.
ListenersBefore(listeners, c) ==
    IF c.op # "add_listener" THEN listeners
    ELSE IF c.replaced = NoListener THEN Del(listeners, KeyOf(c))
    ELSE Put(listeners, KeyOf(c), c.replaced)

\* C24: a get_config, set_config, delete_config, add_listener or remove_listener call
\* whose backend call failed raises and leaves the cache and the listener registry as
\* they were before the call: a failed add_listener has neither recorded its listener
\* nor displaced the one recorded before.
C24_FailureAtomic ==
    [][\A t \in Tasks :
        (Ends(t) /\ call[t].op \in ConfigOps /\ bres[t].kind = "raise") =>
            /\ ev'.kind = "raise"
            /\ config_cache' = config_cache
            /\ config_listeners' = ListenersBefore(config_listeners, call[t])]_vars

\* C25: when remove_listener has returned True for a key, every callback still
\* registered at the backend for that (dataId, group) is the callback of a listener
\* the local registry still holds for it: none is left over from the removed key,
\* whatever add_listener calls were made on it before.
C25_RemoveLeavesNoCallback ==
    (EndedWith("remove_listener", "return") /\ ev.value = True) =>
        \A cb \in backend_listeners[ParamOf(ev.call)] :
            \E k \in DOMAIN config_listeners :
                /\ ParamOf(config_listeners[k]) = ParamOf(ev.call)
                /\ config_listeners[k].callback = cb

\* The content the session would answer a get_config(data_id, group, namespace) with.
Served(contents, data_id, group, namespace) ==
    contents[ParamOf(Request("get_config", data_id, group, namespace, None, NoListener))]

\* C26: a set_config or delete_config of (dataId, group) under one namespace does not
\* change the content get_config(dataId, group, ns) returns for any other namespace ns.
C26_NamespaceIsolation ==
    [][\A t \in Tasks :
        (pc[t] = "awaiting" /\ pc'[t] = "resumed"
            /\ call[t].op \in {"set_config", "delete_config"}) =>
            \A ns \in Namespaces \ {call[t].namespace} :
                Served(store', call[t].data_id, call[t].group, ns) =
                    Served(store, call[t].data_id, call[t].group, ns)]_vars

\* The entry of a dict under a key: its value, or nothing.
EntryAt(dict, k) == IF k \in DOMAIN dict THEN <<dict[k]>> ELSE <<>>

\* Two dicts agree on every key but k.
SameExceptAt(old, new, k) ==
    \A x \in ((DOMAIN old) \cup (DOMAIN new)) \ {k} : EntryAt(old, x) = EntryAt(new, x)

\* C28: every step of get_config, set_config and delete_config on a key leaves the
\* listener registry alone and changes at most the cache entry of that key; every
\* step of add_listener and remove_listener on a key leaves the cache alone and
\* changes at most the listener record of that key.
C28_PerKeyFrame ==
    [][/\ \A t \in Tasks :
            LET c == IF pc[t] = "idle" THEN call'[t] ELSE call[t]
                mine == pc'[t] # pc[t]
            IN  /\ (mine /\ c.op \in {"get_config", "set_config", "delete_config"}) =>
                    /\ config_listeners' = config_listeners
                    /\ SameExceptAt(config_cache, config_cache', KeyOf(c))
                /\ (mine /\ c.op \in {"add_listener", "remove_listener"}) =>
                    /\ config_cache' = config_cache
                    /\ SameExceptAt(config_listeners, config_listeners', KeyOf(c))
       /\ (pc' = pc /\ ev'.kind = "return" /\ ev'.call.op = "remove_listener") =>
            UNCHANGED <<config_cache, config_listeners>>]_vars

C28_Witness ==
    /\ EndedWith("add_listener", "return")
    /\ \E k \in DOMAIN config_listeners :
        /\ k # KeyOf(ev.call)
        /\ config_listeners[k].callback # ev.call.listener.callback
    /\ \E k \in DOMAIN config_cache : k # KeyOf(ev.call)
    /\ KeyOf(ev.call) \in DOMAIN config_cache

TripleOf(c) == <<c.namespace, c.group, c.data_id>>

\* C27: no (namespace, group, dataId) triple other than the one a call names has the
\* call's cache / listener key, also when the strings hold ':', and no step of the
\* call changes the cache entry or the listener record of another triple.
C27_KeyInjective ==
    [][\A t \in Tasks :
        LET c == IF pc[t] = "idle" THEN call'[t] ELSE call[t]
            mine == pc'[t] # pc[t] /\ c.op \in ConfigOps
        IN  mine =>
                \A tr \in KeyTriples \ {TripleOf(c)} :
                    /\ CacheKey(tr[1], tr[2], tr[3]) # KeyOf(c)
                    /\ EntryAt(config_cache', CacheKey(tr[1], tr[2], tr[3])) =
                           EntryAt(config_cache, CacheKey(tr[1], tr[2], tr[3]))
                    /\ EntryAt(config_listeners', CacheKey(tr[1], tr[2], tr[3])) =
                           EntryAt(config_listeners, CacheKey(tr[1], tr[2], tr[3]))]_vars

\* The positions of a list that pass the health filter.
Qualifying(list, healthy_only) ==
    {i \in 1..Len(list) : healthy_only = True => list[i].healthy = True}

DiscoveryEvent(e, op) ==
    e.kind \in {"return", "raise"} /\ e.call.op = op /\ e.answer.kind = "value"

\* C21: when the backend answers the query, get_service_instances returns the
\* instances that pass the filter, the empty list when there is none (an unknown
\* service, or no healthy instance under healthy_only), and choose_one_instance
\* returns None for each known strategy when none passes; neither raises, at the
\* facade either.
C21_EmptyIsNormal ==
    /\ DiscoveryEvent(ev, "get_service_instances") =>
        /\ ev.kind = "return"
        /\ Len(ev.value) = Cardinality(Qualifying(ev.answer.value, ev.call.healthy_only))
        /\ \A i \in 1..Len(ev.value) :
            \E j \in Qualifying(ev.answer.value, ev.call.healthy_only) :
                ev.value[i] = ev.answer.value[j]
        /\ ev.facade = Returned(ev.call, ev.value)
    /\ (DiscoveryEvent(ev, "choose_one_instance") /\ ev.call.strategy \in KnownStrategies
           /\ Qualifying(ev.answer.value, ev.call.healthy_only) = {}) =>
        /\ ev.kind = "return"
        /\ ev.value = None
        /\ ev.facade = Returned(ev.call, None)

C21_Witness ==
    /\ DiscoveryEvent(ev, "get_service_instances")
    /\ ev.call.healthy_only = True
    /\ Len(ev.answer.value) = 2
    /\ ev.kind = "return"
    /\ ev.value = <<>>
    /\ ev.facade.kind = "return"

\* ------------------------------------------ claims on the bootstrap configuration

\* The keys of the YAML configuration.
YamlKeys(file) == DOMAIN file.document

\* The environment variables named as a key, as written or in upper case, that are set.
EnvOf(key) == {key, Upper(key)} \cap DOMAIN environ

\* C22: AppConfig.get(key, default) for a key that the YAML configuration does not
\* have (a missing file included) returns the value of the environment variable of
\* that name when the variable is set, not the default.
C22_DualRead ==
    (/\ ev.kind = "return"
     /\ ev.call.op = "AppConfig.get"
     /\ ev.call.key \notin YamlKeys(conf_file)
     /\ EnvOf(ev.call.key) # {}) =>
        \E name \in EnvOf(ev.call.key) : ev.value = PyStr(environ[name])

\* ---------------------------------------------- claims on the dependencies

DependencyEvent(e, ops) == e.kind \in {"return", "raise"} /\ e.call.op \in ops

Initialized(self) == HasAttr(self, "_registry") /\ HasAttr(self, "_discovery")

\* C29: get_nacos_client returns only a manager whose init has succeeded, and raises
\* the HTTP 500 error otherwise; get_service_registry and get_service_discovery
\* return that manager's registry and discovery or raise that same error; and when
\* an init_nacos_registry_discovery_client call has failed, the manager it
\* constructed is not the one the accessor hands out.
C29_UsableManager ==
    /\ DependencyEvent(ev, {"get_nacos_client"}) =>
        IF ev.kind = "return" THEN Initialized(manager[ev.value])
        ELSE ev.error = "HTTPException 500"
    /\ DependencyEvent(ev, {"get_service_registry", "get_service_discovery"}) =>
        IF ev.kind = "return" THEN ev.value.component \in {"ServiceRegistry", "ServiceDiscovery"}
        ELSE ev.error = "HTTPException 500"
    /\ (DependencyEvent(ev, {"init_nacos_registry_discovery_client"}) /\ ev.kind = "raise") =>
        _nacos_client_manager # ev.call.manager

\* ------------------------------------------------ claims on the application's hooks

HookCall(c) == c.hook # NoHook

HookEnded(e, event) ==
    /\ e.kind \in {"return", "raise"}
    /\ e.call.op \in {"register_service", "deregister_service"}
    /\ e.call.hook.event = event

C23_Step(t) ==
    /\ (/\ Ends(t)
        /\ call[t].op = "register_service"
        /\ ~HookCall(call[t])
        /\ call[t].fastapi_app # None
        /\ ev'.kind = "return") =>
            /\ Len(hooks') = Len(hooks) + 1
            /\ SubSeq(hooks', 1, Len(hooks)) = hooks
            /\ hooks'[Len(hooks')].instance = InstanceOf(call[t])
    /\ (pc[t] = "idle" /\ pc'[t] = "awaiting" /\ HookCall(call'[t])) =>
            LET c == call'[t]
                h == hooks[c.hook.pair] IN
            IF c.hook.event = "on_startup"
            THEN c.op = "register_service" /\ InstanceOf(c) = h.instance
            ELSE c.op = "deregister_service" /\ c.resolved = h.instance
    /\ (/\ pc[t] = "awaiting"
        /\ pc'[t] = "resumed"
        /\ HookCall(call[t])
        /\ bres'[t] = SessionAnswer(True)) =>
            LET h == hooks[call[t].hook.pair] IN
            IF call[t].hook.event = "on_startup" THEN h.instance \in registered'
            ELSE h.instance \notin registered'
    /\ (Ends(t) /\ HookCall(call[t])) =>
            /\ ev'.app = Returned(call[t], None)
            /\ hooks' = hooks

\* C23: a register_service call with a FastAPI app that succeeds installs one pair of
\* hooks for the instance of the call; the startup hook registers that instance and
\* the shutdown hook deregisters it, so after a startup and then a shutdown that the
\* backend both accepted the instance is not registered; whatever the backend does
\* inside a hook, the hook returns None to the application; and a call made by a hook
\* installs no hooks.
C23_FastapiHooks ==
    [][/\ \A t \in DOMAIN pc : C23_Step(t)
       /\ (/\ Len(done') = 2
           /\ ev' = done'[2]
           /\ HookEnded(done'[1], "on_startup")
           /\ done'[1].answer = SessionAnswer(True)
           /\ HookEnded(done'[2], "on_shutdown")
           /\ done'[2].answer = SessionAnswer(True)
           /\ done'[2].call.hook.pair = done'[1].call.hook.pair) =>
               hooks'[done'[2].call.hook.pair].instance \notin registered']_vars

C23_Witness ==
    /\ Len(done) = 2
    /\ ev = done[2]
    /\ HookEnded(done[1], "on_startup")
    /\ done[1].answer = SessionAnswer(True)
    /\ HookEnded(done[2], "on_shutdown")
    /\ done[2].answer = SessionAnswer(True)
    /\ done[2].app = Returned(done[2].call, None)
    /\ done[2].call.hook.pair = done[1].call.hook.pair
    /\ hooks[done[2].call.hook.pair].instance \notin registered

\* C30: when the startup hook's registration has succeeded, the backend's entry of
\* the instance (its weight and metadata) is the entry the original register_service
\* call created.
C30_SameEntry ==
    (HookEnded(ev, "on_startup") /\ ev.answer = SessionAnswer(True)) =>
        entries[InstanceOf(ev.call)] = hooks[ev.call.hook.pair].original

====
